---- MODULE Spec2Model ----
(***************************************************************************)
(* Model of the enterprise knowledge-base core (chongs12/ebk-rg): the      *)
(* chunk engine, the vector pipeline service, the RabbitMQ ingestion       *)
(* consumer, the RAG query service and its SSE delivery handler.           *)
(*                                                                         *)
(* Strings whose content matters (document text, queries, LLM fragments)   *)
(* are sequences of one-character strings, so that trimming, splitting and *)
(* concatenation are computed the way the Go code computes them.           *)
(***************************************************************************)
EXTENDS Integers, Sequences, FiniteSets, TLC

(***************************************************************************)
(* Bounds of the model.                                                    *)
(***************************************************************************)
\* messages the document service publishes to the ingestion queue
MaxMsgs == 3
\* prefetch count handed to Client.Consume (a deployment setting)
PrefetchCount == 2
\* fragments one LLM stream emits at most
MaxFrags == 2
\* heartbeat ticks during one streaming response
MaxPings == 1
\* the clock advances in steps of TickStep seconds up to MaxTime
TickStep == 30
MaxTime == 60
\* chunk ids handed out before the HTTP ingestion stops
MaxIds == 4

(***************************************************************************)
(* Program constants.                                                      *)
(***************************************************************************)
\* ChunkText: chunkSize <= 0 is replaced by 200
DefaultChunkSize == 200

None == "none"

(***************************************************************************)
(* Text helpers: strings.TrimSpace and the sentence regexp.                *)
(***************************************************************************)
WhiteSpace == {" ", "\t", "\n", "\r"}

\* the ASCII members of the class [。！？；;!?。\n\r]
Terminators == {";", "!", "?", "\n", "\r"}

RECURSIVE TrimLeft(_)
TrimLeft(s) ==
    IF s # <<>> /\ Head(s) \in WhiteSpace THEN TrimLeft(Tail(s)) ELSE s

RECURSIVE TrimRight(_)
TrimRight(s) ==
    IF s # <<>> /\ s[Len(s)] \in WhiteSpace
    THEN TrimRight(SubSeq(s, 1, Len(s) - 1))
    ELSE s

TrimSpace(s) == TrimRight(TrimLeft(s))

\* sentenceRegex.Split(text, -1): the pieces between maximal runs of
\* terminators (a leading or trailing run leaves an empty piece)
RECURSIVE SplitFrom(_, _, _, _)
SplitFrom(text, i, cur, acc) ==
    IF i > Len(text) THEN Append(acc, cur)
    ELSE IF text[i] \in Terminators
         THEN IF i > 1 /\ text[i - 1] \in Terminators
              THEN SplitFrom(text, i + 1, cur, acc)
              ELSE SplitFrom(text, i + 1, <<>>, Append(acc, cur))
         ELSE SplitFrom(text, i + 1, Append(cur, text[i]), acc)

SentenceSplit(text) == SplitFrom(text, 1, <<>>, <<>>)

\* a forced split that drops a final slice shorter than maxChars
RECURSIVE HardSplitNoTail(_, _)
HardSplitNoTail(runes, maxChars) ==
    IF Len(runes) < maxChars THEN <<>>
    ELSE <<SubSeq(runes, 1, maxChars)>>
             \o HardSplitNoTail(SubSeq(runes, maxChars + 1, Len(runes)), maxChars)

\* the forced split of one over-long sentence into slices of maxChars runes
RECURSIVE HardSplit(_, _)
HardSplit(runes, maxChars) ==
    IF Len(runes) = 0 THEN <<>>
    ELSE IF Len(runes) <= maxChars THEN <<runes>>
    ELSE <<SubSeq(runes, 1, maxChars)>>
             \o HardSplit(SubSeq(runes, maxChars + 1, Len(runes)), maxChars)

\* the loop of splitChineseText over the sentences, with its three locals
RECURSIVE Accumulate(_, _, _, _, _)
Accumulate(sents, maxChars, chunks, current, currentLen) ==
    IF sents = <<>>
    THEN IF currentLen > 0 THEN Append(chunks, current) ELSE chunks
    ELSE LET sent == TrimSpace(Head(sents))
             sentLen == Len(sent)
             rest == Tail(sents)
         IN  IF sent = <<>>
             THEN Accumulate(rest, maxChars, chunks, current, currentLen)
             ELSE IF sentLen > maxChars
             THEN Accumulate(rest, maxChars,
                             chunks \o HardSplit(sent, maxChars),
                             current, currentLen)
             ELSE LET flush == currentLen > 0 /\ currentLen + sentLen > maxChars
                      chunks1 == IF flush THEN Append(chunks, current) ELSE chunks
                      cur1 == IF flush THEN <<>> ELSE current
                      len1 == IF flush THEN 0 ELSE currentLen
                      cur2 == IF len1 > 0 THEN Append(cur1, " ") ELSE cur1
                  IN  Accumulate(rest, maxChars, chunks1, cur2 \o sent,
                                 len1 + sentLen)

splitChineseText(text, maxChars) ==
    IF TrimSpace(text) = <<>> THEN <<>>
    ELSE Accumulate(SentenceSplit(text), maxChars, <<>>, <<>>, 0)

(***************************************************************************)
(* Identifiers.  uuid.New() is a fresh value: the counter nextId.          *)
(***************************************************************************)
ValidUUIDs == {"d1", "d2"}

\* uuid.Parse
uuidParseOk(s) == s \in ValidUUIDs

\* the loop of ChunkText over chunkTexts: idx is the position in chunkTexts
RECURSIVE BuildChunks(_, _, _, _)
BuildChunks(texts, idx, documentID, nid) ==
    IF idx > Len(texts) THEN <<>>
    ELSE IF TrimSpace(texts[idx]) = <<>>
    THEN BuildChunks(texts, idx + 1, documentID, nid)
    ELSE <<[id |-> nid,
            document_id |-> documentID,
            content |-> texts[idx],
            chunk_index |-> idx - 1,
            start_pos |-> 0,
            end_pos |-> Len(texts[idx]),
            word_count |-> Len(texts[idx])]>>
         \o BuildChunks(texts, idx + 1, documentID, nid + 1)

\* a ChunkText that reports a text without chunks as an error
ChunkTextRejectsEmpty(documentIDStr, content, chunkSize, firstId) ==
    LET size == IF chunkSize <= 0 THEN DefaultChunkSize ELSE chunkSize
        chunks == BuildChunks(splitChineseText(content, size), 1,
                              documentIDStr, firstId)
    IN  IF ~uuidParseOk(documentIDStr) \/ chunks = <<>>
        THEN [err |-> TRUE, chunks |-> <<>>]
        ELSE [err |-> FALSE, chunks |-> chunks]

\* a ChunkText whose ids depend on the position only, not on the call
ChunkTextSameIds(documentIDStr, content, chunkSize, firstId) ==
    LET size == IF chunkSize <= 0 THEN DefaultChunkSize ELSE chunkSize
    IN  IF ~uuidParseOk(documentIDStr)
        THEN [err |-> TRUE, chunks |-> <<>>]
        ELSE [err |-> FALSE,
              chunks |-> BuildChunks(splitChineseText(content, size), 1,
                                     documentIDStr, 1)]

\* VectorService.ChunkText; firstId is the next fresh uuid
ChunkText(documentIDStr, content, chunkSize, firstId) ==
    LET size == IF chunkSize <= 0 THEN DefaultChunkSize ELSE chunkSize
    IN  IF ~uuidParseOk(documentIDStr)
        THEN [err |-> TRUE, chunks |-> <<>>]
        ELSE [err |-> FALSE,
              chunks |-> BuildChunks(splitChineseText(content, size), 1,
                                     documentIDStr, firstId)]

(***************************************************************************)
(* Embedding and storage conversions.                                      *)
(***************************************************************************)
\* the embedder is a deterministic function of the text (one vector per input)
EmbedVec(content) == <<Len(content), Cardinality({content[i] : i \in DOMAIN content})>>

Embed(contents) == [i \in DOMAIN contents |-> EmbedVec(contents[i])]

Float64SliceToBytes(v) == <<"le64">> \o v

ToFloat32(v) == <<"f32">> \o v

(***************************************************************************)
(* State.                                                                  *)
(***************************************************************************)
VARIABLES
    db,         \* relational table text_chunks: a set of rows, id is the key
    index,      \* the Milvus collection: the rows inserted, in insert order
    nextId,     \* the next value uuid.New() returns
    pw,         \* per pipeline worker: position in ChunkText/GenerateEmbeddings
    writes      \* number of writes made to db and index so far

VARIABLES
    queues,     \* broker: queue name -> messages waiting
    msgsChan,   \* deliveries pushed to the consumer, not yet ranged over
    cur,        \* the delivery the consumer loop is processing (<<>>: none)
    decisions,  \* every Ack/Nack the consumer sent, in order
    invoked,    \* ids of the messages ProcessDocument was called for
    taken,      \* ids of the messages the loop has taken, in order
    published   \* number of messages published so far

VARIABLES
    redis,      \* string keys: key -> [present, val, exp]
    hist,       \* list keys rag:hist:<user>:<session> -> [items, exp]
    now         \* the clock, in seconds

VARIABLES
    sreq        \* the AskSync calls: per call its inputs, position and result

VARIABLES
    st,         \* the AskStream worker goroutine
    out,        \* its fragment channel (buffered)
    outClosed,
    errs,       \* its error channel (buffer 1)
    errsClosed,
    h,          \* the SSE handler: position and frames written
    cancelled   \* the request context is done

VARIABLES
    searchLog,  \* the SearchSimilarChunks calls made directly, with results
    call        \* a direct ChunkText call: its inputs, its result once it has
                \* run, and the GenerateEmbeddings runs made on its chunks

storeVars == <<db, index, nextId, pw, writes>>
mqVars == <<queues, msgsChan, cur, decisions, invoked, taken, published>>
redisVars == <<redis, hist, now>>
syncVars == <<sreq>>
streamVars == <<st, out, outClosed, errs, errsClosed, h, cancelled>>
searchVars == <<searchLog, call>>
vars == <<storeVars, mqVars, redisVars, syncVars, streamVars, searchVars>>
\* everything the ingestion consumer leaves alone
nonMQ == <<redisVars, syncVars, streamVars, searchVars>>

Workers == {"mq", "http"}

IdleWorker ==
    [pc |-> "idle", chunks |-> <<>>, embeddings |-> <<>>, i |-> 0, err |-> FALSE]

(***************************************************************************)
(* MilvusStore.InsertChunks and VectorService.storeChunk.                  *)
(***************************************************************************)
IndexRow(chunk, embedding) ==
    [id |-> chunk.id,
     content |-> chunk.content,
     vector |-> ToFloat32(embedding),
     metadata |-> [document_id |-> chunk.document_id,
                   chunk_index |-> chunk.chunk_index,
                   start_pos |-> chunk.start_pos,
                   end_pos |-> chunk.end_pos,
                   word_count |-> chunk.word_count]]

\* one columnar client.Insert of all rows; backendOk is the backend's answer
InsertChunks(idx, chunks, embeddings, backendOk) ==
    IF Len(chunks) # Len(embeddings) THEN [err |-> TRUE, index |-> idx]
    ELSE IF ~backendOk THEN [err |-> TRUE, index |-> idx]
    ELSE [err |-> FALSE,
          index |-> idx \o [i \in 1..Len(chunks) |->
                               IndexRow(chunks[i], embeddings[i])]]

DbRow(chunk, embedding) ==
    [id |-> chunk.id,
     document_id |-> chunk.document_id,
     content |-> chunk.content,
     chunk_index |-> chunk.chunk_index,
     start_pos |-> chunk.start_pos,
     end_pos |-> chunk.end_pos,
     word_count |-> chunk.word_count,
     embedding |-> Float64SliceToBytes(embedding)]

\* a table without a primary key: every Create is accepted
storeChunkNoKey(table, row, backendOk) ==
    IF ~backendOk
    THEN [err |-> TRUE, db |-> table]
    ELSE [err |-> FALSE, db |-> table \cup {row}]

\* db.Create: the primary key rejects a second row with the same id
storeChunk(table, row, backendOk) ==
    IF ~backendOk \/ (\E r \in table : r.id = row.id)
    THEN [err |-> TRUE, db |-> table]
    ELSE [err |-> FALSE, db |-> table \cup {row}]

(***************************************************************************)
(* The pipeline of one worker: ChunkText, then GenerateEmbeddings step by  *)
(* step (Embed, one db.Create per chunk, one InsertChunks).                *)
(***************************************************************************)
\* ChunkText followed by the entry of GenerateEmbeddings (no chunks: return nil)
PipelineChunk(w, documentID, content, chunkSize) ==
    LET r == ChunkText(documentID, content, chunkSize, nextId)
    IN  /\ pw[w].pc = "chunk"
        /\ nextId' = nextId + Len(r.chunks)
        /\ pw' = [pw EXCEPT ![w] =
                    [pc |-> IF r.err \/ r.chunks = <<>> THEN "done" ELSE "embed",
                     chunks |-> r.chunks, embeddings |-> <<>>, i |-> 0,
                     err |-> r.err]]
        /\ UNCHANGED <<db, index, writes>>

\* Step 2 of GenerateEmbeddings: one batched Embed call
GenEmbed(w) ==
    /\ pw[w].pc = "embed"
    /\ \E ok \in BOOLEAN :
         pw' = [pw EXCEPT ![w] =
                  IF ok
                  THEN [@ EXCEPT !.pc = "store", !.i = 1,
                                 !.embeddings =
                                     Embed([i \in DOMAIN pw[w].chunks |->
                                               pw[w].chunks[i].content])]
                  ELSE [@ EXCEPT !.pc = "done", !.err = TRUE]]
    /\ UNCHANGED <<db, index, nextId, writes>>

\* the loop going on to InsertChunks after a db.Create that failed
GenStoreKeepGoing(w) ==
    /\ pw[w].pc = "store"
    /\ \E ok \in BOOLEAN :
         LET i == pw[w].i
             r == storeChunk(db, DbRow(pw[w].chunks[i], pw[w].embeddings[i]), ok)
         IN  /\ db' = r.db
             /\ writes' = IF r.err THEN writes ELSE writes + 1
             /\ pw' = [pw EXCEPT ![w] =
                         IF i = Len(pw[w].chunks)
                         THEN [@ EXCEPT !.pc = "insert"]
                         ELSE [@ EXCEPT !.i = i + 1]]
    /\ UNCHANGED <<index, nextId>>

\* Step 3 of GenerateEmbeddings: the relational row of chunk i
GenStore(w) ==
    /\ pw[w].pc = "store"
    /\ \E ok \in BOOLEAN :
         LET i == pw[w].i
             r == storeChunk(db, DbRow(pw[w].chunks[i], pw[w].embeddings[i]), ok)
         IN  /\ db' = r.db
             /\ writes' = IF r.err THEN writes ELSE writes + 1
             /\ pw' = [pw EXCEPT ![w] =
                         IF r.err THEN [@ EXCEPT !.pc = "done", !.err = TRUE]
                         ELSE IF i = Len(pw[w].chunks)
                         THEN [@ EXCEPT !.pc = "insert"]
                         ELSE [@ EXCEPT !.i = i + 1]]
    /\ UNCHANGED <<index, nextId>>

\* Step 4 of GenerateEmbeddings: the single InsertChunks
GenInsert(w) ==
    /\ pw[w].pc = "insert"
    /\ \E ok \in BOOLEAN :
         LET r == InsertChunks(index, pw[w].chunks, pw[w].embeddings, ok)
         IN  /\ index' = r.index
             /\ writes' = IF r.err THEN writes ELSE writes + 1
             /\ pw' = [pw EXCEPT ![w] = [@ EXCEPT !.pc = "done", !.err = r.err]]
    /\ UNCHANGED <<db, nextId>>

(***************************************************************************)
(* The broker as rabbitmq.NewClient declares it.                           *)
(***************************************************************************)
QueueName == "documents"

DlxName == QueueName \o ".dlx"

DlqName == QueueName \o ".dlq"

\* a binding of the dead-letter queue under its own name instead of the
\* original queue's
BindingsUnderDlqName ==
    {[queue |-> DlqName, key |-> DlqName, exchange |-> DlxName]}

\* QueueBind(dlqName, queueName, dlxName)
Bindings == {[queue |-> DlqName, key |-> QueueName, exchange |-> DlxName]}

\* the arguments of the main queue; the dead-letter queue has none
QueueArgs ==
    [q \in {QueueName, DlqName} |->
        IF q = QueueName
        THEN [dlx |-> DlxName, dlrk |-> QueueName]
        ELSE [dlx |-> None, dlrk |-> None]]

\* a direct exchange hands a message to the queues bound with its routing key
Route(exchange, key) ==
    {b.queue : b \in {x \in Bindings : x.exchange = exchange /\ x.key = key}}

\* what the broker does with a rejected message of queue `from`
Reject(qs, from, msg, requeue) ==
    IF requeue THEN [qs EXCEPT ![from] = <<msg>> \o @]
    ELSE IF QueueArgs[from].dlx = None THEN qs
    ELSE [q \in DOMAIN qs |->
             IF q \in Route(QueueArgs[from].dlx, QueueArgs[from].dlrk)
             THEN Append(qs[q], msg) ELSE qs[q]]

\* json.Unmarshal into the payload struct
Unmarshal(body) ==
    IF body.wellformed
    THEN [err |-> FALSE,
          payload |-> [document_id |-> body.document_id,
                       content |-> body.content,
                       chunk_size |-> body.chunk_size]]
    ELSE [err |-> TRUE,
          payload |-> [document_id |-> "", content |-> <<>>, chunk_size |-> 0]]

\* the message bodies the model publishes
MQBodies ==
    {[wellformed |-> FALSE, document_id |-> "", content |-> <<>>, chunk_size |-> 0],
     [wellformed |-> TRUE, document_id |-> "d1",
      content |-> <<"a", ";", "b">>, chunk_size |-> 1],
     [wellformed |-> TRUE, document_id |-> "",
      content |-> <<"a", ";", "b">>, chunk_size |-> 1],
     [wellformed |-> TRUE, document_id |-> "d1",
      content |-> <<" ">>, chunk_size |-> 0]}

\* Client.Publish
Publish ==
    /\ published < MaxMsgs
    /\ \E b \in MQBodies :
         queues' = [queues EXCEPT ![QueueName] =
                       Append(@, [id |-> published + 1, body |-> b])]
    /\ published' = published + 1
    /\ UNCHANGED <<msgsChan, cur, decisions, invoked, taken>>
    /\ UNCHANGED <<storeVars, nonMQ>>

InFlight == Len(msgsChan) + Len(cur)

\* the broker pushes the head of the queue while the QoS limit allows
Deliver ==
    /\ queues[QueueName] # <<>>
    /\ InFlight < PrefetchCount
    /\ msgsChan' = Append(msgsChan, Head(queues[QueueName]))
    /\ queues' = [queues EXCEPT ![QueueName] = Tail(@)]
    /\ UNCHANGED <<cur, decisions, invoked, taken, published>>
    /\ UNCHANGED <<storeVars, nonMQ>>

\* what a decision is recorded with: the delivery, whether ProcessDocument
\* ran for it and the error it returned
Decision(d, kind, requeue) ==
    [msg |-> d, kind |-> kind, requeue |-> requeue,
     ran |-> d.id \in invoked, failed |-> pw["mq"].err]

\* d.Nack(false, requeue)
Nack(d, requeue) ==
    /\ decisions' = Append(decisions, Decision(d, "nack", requeue))
    /\ queues' = Reject(queues, QueueName, d, requeue)

\* d.Ack(false)
Ack(d) ==
    /\ decisions' = Append(decisions, Decision(d, "ack", FALSE))
    /\ queues' = queues

\* loop body, lines 259-269: the body does not parse
ConsumeUnparsable ==
    /\ cur = <<>>
    /\ msgsChan # <<>>
    /\ Unmarshal(Head(msgsChan).body).err
    /\ Nack(Head(msgsChan), FALSE)
    /\ msgsChan' = Tail(msgsChan)
    /\ taken' = Append(taken, Head(msgsChan).id)
    /\ UNCHANGED <<cur, invoked, published>>
    /\ UNCHANGED <<storeVars, nonMQ>>

\* loop body, lines 259-273: the body parses and ProcessDocument is entered
ConsumeParsed ==
    /\ cur = <<>>
    /\ msgsChan # <<>>
    /\ ~Unmarshal(Head(msgsChan).body).err
    /\ cur' = <<Head(msgsChan)>>
    /\ msgsChan' = Tail(msgsChan)
    /\ taken' = Append(taken, Head(msgsChan).id)
    /\ invoked' = invoked \cup {Head(msgsChan).id}
    /\ pw' = [pw EXCEPT !["mq"] = [IdleWorker EXCEPT !.pc = "chunk"]]
    /\ UNCHANGED <<queues, decisions, published, db, index, nextId, writes, nonMQ>>

\* ProcessDocument: chunk, embed and store the payload
ProcessDocumentChunk ==
    /\ cur # <<>>
    /\ LET p == Unmarshal(cur[1].body).payload
       IN  PipelineChunk("mq", p.document_id, p.content, p.chunk_size)
    /\ UNCHANGED <<mqVars, nonMQ>>

ProcessDocumentEmbed ==
    cur # <<>> /\ GenEmbed("mq") /\ UNCHANGED <<mqVars, nonMQ>>

ProcessDocumentStore ==
    cur # <<>> /\ GenStore("mq") /\ UNCHANGED <<mqVars, nonMQ>>

ProcessDocumentInsert ==
    cur # <<>> /\ GenInsert("mq") /\ UNCHANGED <<mqVars, nonMQ>>

\* a consumer that acknowledges whatever ProcessDocument returned
ConsumeDecideAckAlways ==
    /\ cur # <<>>
    /\ pw["mq"].pc = "done"
    /\ Ack(cur[1])
    /\ cur' = <<>>
    /\ pw' = [pw EXCEPT !["mq"] = IdleWorker]
    /\ UNCHANGED <<msgsChan, invoked, taken, published, db, index, nextId, writes, nonMQ>>

\* loop body, lines 273-281: Nack(false, false) on error, Ack otherwise
ConsumeDecide ==
    /\ cur # <<>>
    /\ pw["mq"].pc = "done"
    /\ IF pw["mq"].err
       THEN Nack(cur[1], FALSE)
       ELSE Ack(cur[1])
    /\ cur' = <<>>
    /\ pw' = [pw EXCEPT !["mq"] = IdleWorker]
    /\ UNCHANGED <<msgsChan, invoked, taken, published, db, index, nextId, writes, nonMQ>>

(***************************************************************************)
(* Redis: string keys with a time to live, and the history lists.          *)
(***************************************************************************)
\* redis.Set(..., 60*time.Second) in SearchSimilarChunks
SearchCacheTTL == 60
\* redis.Set(..., 60*time.Second) in AskSync
AnswerCacheTTL == 60
\* redis.Expire(..., 24*time.Hour) in saveHistory
HistoryTTL == 86400
\* SearchSimilarChunks / Search / Retrieve: limit <= 0 is replaced by 10
DefaultSearchLimit == 10
\* RetrieverConfig.TopK
TopK == 10

Users == {"u1", "u2"}

Sessions == {"", "s1"}

\* query texts: empty, whitespace only, and a real one
Queries == {<<>>, <<" ">>, <<"a">>}

\* the limits that reach a cache key (0 has been replaced by a default)
Limits == {1, 5, 10}

\* first 8 bytes of the SHA-256 of the text, in hex: distinct texts get
\* distinct digests (collisions of the 64-bit prefix are not modelled)
Sha8(text) == <<"sha256:8">> \o text

\* VectorService.hash and RAGQueryService.cacheKey: prefix:digest:limit
hash(prefix, text, limit) == <<prefix, Sha8(text), limit>>

cacheKey(prefix, text, limit) == <<prefix, Sha8(text), limit>>

\* the keys the modelled calls can touch
RedisKeys ==
    {cacheKey("rag", q, l) : q \in {<<" ">>, <<"a">>}, l \in {5}}
        \cup {hash("srch", q, l) : q \in {<<" ">>, <<"a">>}, l \in Limits}

HistKeys == Users \X Sessions

AbsentEntry == [present |-> FALSE, val |-> <<>>, exp |-> 0]

\* GET: the value of a key that exists and has not expired
RedisGet(rds, key, t) ==
    IF rds[key].present /\ rds[key].exp > t
    THEN [found |-> TRUE, val |-> rds[key].val]
    ELSE [found |-> FALSE, val |-> <<>>]

\* SET key val EX ttl
RedisSet(rds, key, val, ttl, t) ==
    [rds EXCEPT ![key] = [present |-> TRUE, val |-> val, exp |-> t + ttl]]

(***************************************************************************)
(* Similarity search: the backend retriever, MilvusStore.Retrieve, the     *)
(* relational lookup and SearchSimilarChunks.                              *)
(***************************************************************************)
Range(s) == {s[i] : i \in DOMAIN s}

\* the backend's similarity score of a stored text for a query
Score(query, content) ==
    Cardinality({i \in DOMAIN content : content[i] \in Range(query)})

\* positions of the collection by descending score, earlier rows first on ties
RECURSIVE RankFrom(_, _, _)
RankFrom(idx, query, rest) ==
    IF rest = {} THEN <<>>
    ELSE LET best == CHOOSE i \in rest : \A j \in rest :
                        \/ Score(query, idx[i].content) > Score(query, idx[j].content)
                        \/ /\ Score(query, idx[i].content) = Score(query, idx[j].content)
                           /\ i <= j
         IN  <<best>> \o RankFrom(idx, query, rest \ {best})

\* retriever.Retrieve: the TopK nearest documents with their scores
BackendRetrieve(idx, query) ==
    LET order == RankFrom(idx, query, DOMAIN idx)
        n == IF Len(order) > TopK THEN TopK ELSE Len(order)
    IN  [k \in 1..n |-> [id |-> idx[order[k]].id,
                         score |-> Score(query, idx[order[k]].content)]]

\* a loop that cuts the document list to limit before it filters by score
RECURSIVE FilterHitsLimitFirst(_, _, _, _)
FilterHitsLimitFirst(docs, limit, scoreThreshold, hits) ==
    IF docs = <<>> \/ limit <= 0 THEN hits
    ELSE FilterHitsLimitFirst(
             Tail(docs), limit - 1, scoreThreshold,
             IF scoreThreshold > 0 /\ Head(docs).score < scoreThreshold
             THEN hits
             ELSE Append(hits, [id |-> Head(docs).id, score |-> Head(docs).score]))

\* the loop of MilvusStore.Retrieve over the documents
RECURSIVE FilterHits(_, _, _, _)
FilterHits(docs, limit, scoreThreshold, hits) ==
    IF docs = <<>> THEN hits
    ELSE IF scoreThreshold > 0 /\ Head(docs).score < scoreThreshold
    THEN FilterHits(Tail(docs), limit, scoreThreshold, hits)
    ELSE LET hits1 == Append(hits, [id |-> Head(docs).id,
                                    score |-> Head(docs).score])
         IN  IF Len(hits1) >= limit THEN hits1
             ELSE FilterHits(Tail(docs), limit, scoreThreshold, hits1)

\* MilvusStore.Retrieve from the documents the backend retriever returned on
RetrieveDocs(docs, limit, scoreThreshold) ==
    FilterHits(docs,
               IF limit <= 0 THEN DefaultSearchLimit ELSE limit,
               scoreThreshold, <<>>)

\* MilvusStore.Retrieve
Retrieve(idx, query, limit, scoreThreshold) ==
    RetrieveDocs(BackendRetrieve(idx, query), limit, scoreThreshold)

\* rows in primary-key order
RECURSIVE SortById(_)
SortById(rows) ==
    IF rows = {} THEN <<>>
    ELSE LET r == CHOOSE x \in rows : \A y \in rows : x.id <= y.id
         IN  <<r>> \o SortById(rows \ {r})

\* db.Where("id IN ?", ids).Find: the matching rows, as the table orders them
DbFindByIds(table, ids) == SortById({r \in table : r.id \in Range(ids)})

\* json.Marshal of the chunk list, and json.Unmarshal of a cached value
MarshalRow(r) ==
    <<<<"id", r.id>>, <<"document_id", r.document_id>>, <<"content", r.content>>,
      <<"chunk_index", r.chunk_index>>, <<"start_pos", r.start_pos>>,
      <<"end_pos", r.end_pos>>, <<"word_count", r.word_count>>,
      <<"embedding", r.embedding>>>>

Marshal(rows) == <<"json">> \o [i \in DOMAIN rows |-> MarshalRow(rows[i])]

Field(obj, name) == (CHOOSE kv \in Range(obj) : kv[1] = name)[2]

UnmarshalRow(obj) ==
    [id |-> Field(obj, "id"),
     document_id |-> Field(obj, "document_id"),
     content |-> Field(obj, "content"),
     chunk_index |-> Field(obj, "chunk_index"),
     start_pos |-> Field(obj, "start_pos"),
     end_pos |-> Field(obj, "end_pos"),
     word_count |-> Field(obj, "word_count"),
     embedding |-> Field(obj, "embedding")]

UnmarshalOk(val) == val # <<>> /\ Head(val) = "json"

UnmarshalRows(val) == [i \in 1..(Len(val) - 1) |-> UnmarshalRow(val[i + 1])]

FirstN(s, n) == IF Len(s) > n THEN SubSeq(s, 1, n) ELSE s

\* a search that returns an error when the cache read fails or the cached
\* value cannot be parsed
SearchSimilarChunksStrictCache(query, limitIn, rds, t, idx, table, ok) ==
    LET limit == IF limitIn <= 0 THEN DefaultSearchLimit ELSE limitIn
        key == hash("srch", query, limit)
        got == RedisGet(rds, key, t)
        hits == FirstN(Retrieve(idx, query, limit, 0), limit)
        ids == [i \in DOMAIN hits |-> hits[i].id]
        rows == IF ids = <<>> THEN <<>> ELSE FirstN(DbFindByIds(table, ids), limit)
    IN  IF ~ok.get \/ (got.found /\ ~UnmarshalOk(got.val))
        THEN [err |-> TRUE, result |-> <<>>, redis |-> rds,
              calls |-> <<"redis.get">>]
        ELSE IF got.found
        THEN [err |-> FALSE, result |-> UnmarshalRows(got.val), redis |-> rds,
              calls |-> <<"redis.get">>]
        ELSE IF ~ok.retrieve \/ (ids # <<>> /\ ~ok.find)
        THEN [err |-> TRUE, result |-> <<>>, redis |-> rds,
              calls |-> <<"redis.get", "store.retrieve">>]
        ELSE [err |-> FALSE, result |-> rows,
              redis |-> IF ok.set
                        THEN RedisSet(rds, key, Marshal(rows), SearchCacheTTL, t)
                        ELSE rds,
              calls |-> <<"redis.get", "store.retrieve", "db.find", "redis.set">>]

\* VectorService.SearchSimilarChunks.  ok names which backend calls succeed:
\* ok.get (redis GET), ok.retrieve (vector store), ok.find (relational
\* store), ok.set (redis SET).  calls lists the backend calls made, in order.
SearchSimilarChunks(query, limitIn, rds, t, idx, table, ok) ==
    LET limit == IF limitIn <= 0 THEN DefaultSearchLimit ELSE limitIn
        key == hash("srch", query, limit)
        got == RedisGet(rds, key, t)
        cached == ok.get /\ got.found /\ got.val # <<>> /\ UnmarshalOk(got.val)
        hits == FirstN(Retrieve(idx, query, limit, 0), limit)
        ids == [i \in DOMAIN hits |-> hits[i].id]
        rows == FirstN(DbFindByIds(table, ids), limit)
    IN  IF cached
        THEN [err |-> FALSE, result |-> UnmarshalRows(got.val), redis |-> rds,
              calls |-> <<"redis.get">>]
        ELSE IF ~ok.retrieve
        THEN [err |-> TRUE, result |-> <<>>, redis |-> rds,
              calls |-> <<"redis.get", "store.retrieve">>]
        ELSE IF ids # <<>> /\ ~ok.find
        THEN [err |-> TRUE, result |-> <<>>, redis |-> rds,
              calls |-> <<"redis.get", "store.retrieve", "db.find">>]
        ELSE [err |-> FALSE,
              result |-> IF ids = <<>> THEN <<>> ELSE rows,
              redis |-> IF ok.set
                        THEN RedisSet(rds, key, Marshal(IF ids = <<>> THEN <<>> ELSE rows),
                                      SearchCacheTTL, t)
                        ELSE rds,
              calls |-> <<"redis.get", "store.retrieve">>
                          \o (IF ids = <<>> THEN <<>> ELSE <<"db.find">>)
                          \o <<"redis.set">>]

\* Search: limit <= 0 is replaced by 10
DefaultCrossLimit == 10

\* scoreMap[h.ID] = h.Score over the hits in order: the last hit of an id wins
ScoreMap(hits, id) ==
    LET last == CHOOSE i \in DOMAIN hits :
                   hits[i].id = id /\ \A j \in DOMAIN hits : hits[j].id = id => j <= i
    IN  hits[last].score

\* chunkMap[c.ID.String()] = c over the rows found
ChunkMap(rows, id) == CHOOSE r \in Range(rows) : r.id = id

\* the last loop of Search, over ids[i..]
RECURSIVE CrossResult(_, _, _, _)
CrossResult(ids, i, hits, rows) ==
    IF i > Len(ids) THEN <<>>
    ELSE (IF \E r \in Range(rows) : r.id = ids[i]
          THEN <<[chunk |-> ChunkMap(rows, ids[i]),
                  distance |-> ScoreMap(hits, ids[i])]>>
          ELSE <<>>)
           \o CrossResult(ids, i + 1, hits, rows)

\* a Search that answers in the order of the rows found, as
\* SearchSimilarChunks does
SearchInRowOrder(query, limitIn, idx, table, ok) ==
    LET limit == IF limitIn <= 0 THEN DefaultCrossLimit ELSE limitIn
        hits == FirstN(Retrieve(idx, query, limit, 0), limit)
        ids == [i \in DOMAIN hits |-> hits[i].id]
        rows == DbFindByIds(table, ids)
    IN  IF ~ok.retrieve THEN [err |-> TRUE, result |-> <<>>]
        ELSE IF ids # <<>> /\ ~ok.find THEN [err |-> TRUE, result |-> <<>>]
        ELSE [err |-> FALSE,
              result |-> [i \in DOMAIN rows |->
                            [chunk |-> rows[i],
                             distance |-> ScoreMap(hits, rows[i].id)]]]

\* VectorService.Search.  Every id of the collection is the String() of a
\* uuid, so uuid.Parse accepts it and id.String() gives it back.
Search(query, limitIn, idx, table, ok) ==
    LET limit == IF limitIn <= 0 THEN DefaultCrossLimit ELSE limitIn
        hits == FirstN(Retrieve(idx, query, limit, 0), limit)
        ids == [i \in DOMAIN hits |-> hits[i].id]
        rows == DbFindByIds(table, ids)
    IN  IF ~ok.retrieve THEN [err |-> TRUE, result |-> <<>>]
        ELSE IF ids # <<>> /\ ~ok.find THEN [err |-> TRUE, result |-> <<>>]
        ELSE [err |-> FALSE, result |-> CrossResult(ids, 1, hits, rows)]

\* MilvusStore.DeleteByIDs; backendOk is the backend's answer
DeleteByIDs(idx, ids, backendOk) ==
    IF ids = {} THEN [err |-> FALSE, index |-> idx]
    ELSE IF ~backendOk THEN [err |-> TRUE, index |-> idx]
    ELSE [err |-> FALSE,
          index |-> SelectSeq(idx, LAMBDA e : e.id \notin ids)]

\* DeleteDocumentChunks returning as soon as the vector-store delete fails
DeleteDocumentChunksStopOnStoreError(documentID, idx, table, findOk, storeOk, deleteOk) ==
    LET qids == {r.id : r \in {x \in table : x.document_id = documentID}}
        del == DeleteByIDs(idx, qids, storeOk)
    IN  IF ~uuidParseOk(documentID) THEN
            [err |-> TRUE, index |-> idx, db |-> table, calls |-> <<>>]
        ELSE IF ~findOk THEN
            [err |-> TRUE, index |-> idx, db |-> table, calls |-> <<"db.find">>]
        ELSE IF del.err THEN
            [err |-> TRUE, index |-> idx, db |-> table,
             calls |-> <<"db.find", "store.delete">>]
        ELSE IF ~deleteOk THEN
            [err |-> TRUE, index |-> del.index, db |-> table,
             calls |-> <<"db.find", "store.delete", "db.delete">>]
        ELSE [err |-> FALSE, index |-> del.index,
              db |-> {x \in table : x.document_id # documentID},
              calls |-> <<"db.find", "store.delete", "db.delete">>]

\* VectorService.DeleteDocumentChunks.  findOk, storeOk, deleteOk: the id
\* query, the vector-store delete and the relational delete succeed; the
\* error of the vector-store delete is discarded.  calls: the backend calls
\* made, in order.
DeleteDocumentChunks(documentID, idx, table, findOk, storeOk, deleteOk) ==
    LET qids == {r.id : r \in {x \in table : x.document_id = documentID}}
        idx1 == DeleteByIDs(idx, qids, storeOk).index
        made == <<"db.find">>
                  \o (IF qids # {} THEN <<"store.delete">> ELSE <<>>)
                  \o <<"db.delete">>
    IN  IF ~uuidParseOk(documentID)
        THEN [err |-> TRUE, index |-> idx, db |-> table, calls |-> <<>>]
        ELSE IF ~findOk
        THEN [err |-> TRUE, index |-> idx, db |-> table, calls |-> <<"db.find">>]
        ELSE IF ~deleteOk
        THEN [err |-> TRUE, index |-> idx1, db |-> table, calls |-> made]
        ELSE [err |-> FALSE, index |-> idx1,
              db |-> {x \in table : x.document_id # documentID},
              calls |-> made]

(***************************************************************************)
(* Conversation memory: loadHistory and saveHistory.                       *)
(***************************************************************************)
AbsentList == [items |-> <<>>, hasTTL |-> FALSE, exp |-> 0]

\* a list key exists while it has items and its time to live has not run out
ListLive(e, t) == e.items # <<>> /\ (~e.hasTTL \/ e.exp > t)

ListItems(e, t) == IF ListLive(e, t) THEN e.items ELSE <<>>

\* the role string saveHistory writes for a message role
RoleString(role) ==
    IF role = "system" THEN "system"
    ELSE IF role = "assistant" THEN "assistant"
    ELSE "user"

\* the stored form of one turn: role + "|" + content
EncodeTurn(role, content) == <<RoleString(role), "|">> \o content

RECURSIVE IndexOf(_, _, _)
IndexOf(s, c, i) ==
    IF i > Len(s) THEN 0 ELSE IF s[i] = c THEN i ELSE IndexOf(s, c, i + 1)

\* strings.SplitN(v, "|", 2) and the role switch of loadHistory; an entry
\* without a separator is skipped
DecodeTurn(v) ==
    LET k == IndexOf(v, "|", 1)
        role == SubSeq(v, 1, k - 1)
    IN  IF k = 0 THEN <<>>
        ELSE <<[role |-> IF role = <<"system">> THEN "system"
                         ELSE IF role = <<"assistant">> THEN "assistant"
                         ELSE "user",
                content |-> SubSeq(v, k + 1, Len(v))]>>

RECURSIVE DecodeAll(_)
DecodeAll(vals) ==
    IF vals = <<>> THEN <<>> ELSE DecodeTurn(Head(vals)) \o DecodeAll(Tail(vals))

\* RAGQueryService.loadHistory; readOk: LRANGE succeeds
loadHistory(hs, userID, sessionID, t, readOk) ==
    IF sessionID = "" THEN <<>>
    ELSE IF ~readOk THEN <<>>
    ELSE DecodeAll(ListItems(hs[<<userID, sessionID>>], t))

\* LPUSH in the place of RPUSH: the value is put at the head of the list
LPush(e, v, t) ==
    IF ListLive(e, t) THEN [e EXCEPT !.items = <<v>> \o @]
    ELSE [items |-> <<v>>, hasTTL |-> FALSE, exp |-> 0]

\* RPUSH key value: a key that does not exist is created without a time to live
RPush(e, v, t) ==
    IF ListLive(e, t) THEN [e EXCEPT !.items = Append(@, v)]
    ELSE [items |-> <<v>>, hasTTL |-> FALSE, exp |-> 0]

\* EXPIRE key ttl: no effect on a key that does not exist
Expire(e, ttl, t) ==
    IF ListLive(e, t) THEN [e EXCEPT !.hasTTL = TRUE, !.exp = t + ttl] ELSE e

\* RAGQueryService.saveHistory; pushOk, expireOk: RPUSH, EXPIRE succeed
saveHistory(hs, userID, sessionID, role, content, t, pushOk, expireOk) ==
    IF sessionID = "" THEN hs
    ELSE LET key == <<userID, sessionID>>
             e1 == IF pushOk THEN RPush(hs[key], EncodeTurn(role, content), t)
                   ELSE hs[key]
             e2 == IF expireOk THEN Expire(e1, HistoryTTL, t) ELSE e1
         IN  [hs EXCEPT ![key] = e2]

(***************************************************************************)
(* Prompt assembly and the language model.                                 *)
(***************************************************************************)
\* len(preview) > 200 in AskSync
PreviewLen == 200

SystemPrompt == <<"system-instruction">>

RECURSIVE ContextOf(_)
ContextOf(chunks) ==
    IF chunks = <<>> THEN <<>>
    ELSE <<"[chunk#", Head(chunks).chunk_index, "]">> \o Head(chunks).content
             \o ContextOf(Tail(chunks))

\* system instruction, prior turns, then the user turn with the context
BuildMessages(history, query, chunks) ==
    <<[role |-> "system", content |-> SystemPrompt]>>
      \o history
      \o <<[role |-> "user", content |-> query \o ContextOf(chunks)]>>

SourcesOf(chunks) ==
    [i \in DOMAIN chunks |->
        [id |-> chunks[i].id, document_id |-> chunks[i].document_id,
         chunk_index |-> chunks[i].chunk_index,
         content_excerpt |-> FirstN(chunks[i].content, PreviewLen)]]

\* answers the model may give, and the fragments it may stream
Answers == {<<"x">>, <<"y">>}

Fragments == {<<"x">>, <<"y">>}

\* what chat.Generate returns
GenerateOutcomes == [err : {FALSE}, content : Answers] \cup {[err |-> TRUE, content |-> <<>>]}

\* the backend faults one search inside a query may meet
AllOk == [get |-> TRUE, retrieve |-> TRUE, find |-> TRUE, set |-> TRUE]

QueryFaults ==
    {AllOk, [AllOk EXCEPT !.get = FALSE], [AllOk EXCEPT !.retrieve = FALSE],
     [AllOk EXCEPT !.set = FALSE]}

(***************************************************************************)
(* RAGQueryService.AskSync, in three steps: everything up to and including *)
(* chat.Generate, the first saveHistory, then the second saveHistory with  *)
(* the cache write and the return.                                         *)
(***************************************************************************)
\* the concurrent AskSync calls
SyncReqs == {1, 2}

RagQueries == Queries

RagLimits == {5}

IdleSync ==
    [pc |-> "idle", user |-> "u1", session |-> "", query |-> <<>>, limit |-> 0,
     ret |-> "", answer |-> <<>>, cached |-> FALSE, sources |-> <<>>,
     msgs |-> <<>>, calls |-> <<>>,
     okPushUser |-> FALSE, okPushAssistant |-> FALSE, okSet |-> FALSE]

\* the redis calls one loadHistory or saveHistory makes
HistoryCalls(sessionID, names) == IF sessionID = "" THEN <<>> ELSE names

\* strings.TrimSpace(req.Query) == "" compared without trimming
ValidQueryUntrimmed(q) == q # <<>>

\* line 84: strings.TrimSpace(req.Query) == "" is a validation error
ValidQuery(q) == TrimSpace(q) # <<>>

\* lines 83-146
AskSyncCall(r) ==
    /\ sreq[r].pc = "idle"
    /\ \E u \in Users, sess \in Sessions, q \in RagQueries, lim \in RagLimits :
         LET base == [IdleSync EXCEPT !.user = u, !.session = sess,
                                      !.query = q, !.limit = lim]
             ckey == cacheKey("rag", q, lim)
             got == RedisGet(redis, ckey, now)
         IN  IF ~ValidQuery(q)
             THEN /\ sreq' = [sreq EXCEPT ![r] =
                                [base EXCEPT !.pc = "done", !.ret = "invalid"]]
                  /\ redis' = redis
             ELSE \E getOk \in BOOLEAN :
                    IF getOk /\ got.found /\ got.val # <<>>
                    THEN /\ sreq' = [sreq EXCEPT ![r] =
                                       [base EXCEPT !.pc = "done", !.ret = "ok",
                                                    !.answer = got.val,
                                                    !.cached = TRUE,
                                                    !.calls = <<"redis.get">>]]
                         /\ redis' = redis
                    ELSE \E f \in QueryFaults, histOk \in BOOLEAN,
                            g \in GenerateOutcomes :
                           LET sr == SearchSimilarChunks(q, lim, redis, now,
                                                         index, db, f)
                               history == loadHistory(hist, u, sess, now, histOk)
                               searched == <<"redis.get">> \o sr.calls
                               asked == searched
                                          \o HistoryCalls(sess, <<"redis.lrange">>)
                                          \o <<"llm.generate">>
                           IN  /\ redis' = sr.redis
                               /\ sreq' = [sreq EXCEPT ![r] =
                                     IF sr.err
                                     THEN [base EXCEPT !.pc = "done",
                                                       !.ret = "error",
                                                       !.calls = searched]
                                     ELSE IF g.err
                                     THEN [base EXCEPT !.pc = "done",
                                                       !.ret = "error",
                                                       !.calls = asked]
                                     ELSE [base EXCEPT
                                             !.pc = "saveUser",
                                             !.answer = g.content,
                                             !.sources = SourcesOf(sr.result),
                                             !.msgs = BuildMessages(history, q,
                                                                    sr.result),
                                             !.calls = asked]]
    /\ UNCHANGED <<hist, now>>
    /\ UNCHANGED <<storeVars, mqVars, streamVars, searchVars>>

\* line 149: the user turn
AskSyncSaveUser(r) ==
    /\ sreq[r].pc = "saveUser"
    /\ \E pushOk \in BOOLEAN, expireOk \in BOOLEAN :
         /\ hist' = saveHistory(hist, sreq[r].user, sreq[r].session, "user",
                                sreq[r].query, now, pushOk, expireOk)
         /\ sreq' = [sreq EXCEPT ![r] =
                       [@ EXCEPT !.pc = "saveAssistant",
                                 !.okPushUser = pushOk,
                                 !.calls = @ \o HistoryCalls(sreq[r].session,
                                             <<"redis.rpush", "redis.expire">>)]]
    /\ UNCHANGED <<redis, now>>
    /\ UNCHANGED <<storeVars, mqVars, streamVars, searchVars>>

\* a return that leaves the answer cache alone
AskSyncSaveAssistantNoCache(r) ==
    /\ sreq[r].pc = "saveAssistant"
    /\ \E pushOk \in BOOLEAN, expireOk \in BOOLEAN, setOk \in BOOLEAN :
         /\ hist' = saveHistory(hist, sreq[r].user, sreq[r].session, "assistant",
                                sreq[r].answer, now, pushOk, expireOk)
         /\ sreq' = [sreq EXCEPT ![r] =
                       [@ EXCEPT !.pc = "done", !.ret = "ok",
                                 !.okPushAssistant = pushOk,
                                 !.okSet = setOk,
                                 !.calls = @ \o HistoryCalls(sreq[r].session,
                                             <<"redis.rpush", "redis.expire">>)
                                             \o <<"redis.set">>]]
    /\ UNCHANGED <<redis, now>>
    /\ UNCHANGED <<storeVars, mqVars, streamVars, searchVars>>

\* lines 150-157: the assistant turn, the answer cache, the return
AskSyncSaveAssistant(r) ==
    /\ sreq[r].pc = "saveAssistant"
    /\ \E pushOk \in BOOLEAN, expireOk \in BOOLEAN, setOk \in BOOLEAN :
         /\ hist' = saveHistory(hist, sreq[r].user, sreq[r].session, "assistant",
                                sreq[r].answer, now, pushOk, expireOk)
         /\ redis' = IF setOk
                     THEN RedisSet(redis,
                                   cacheKey("rag", sreq[r].query, sreq[r].limit),
                                   sreq[r].answer, AnswerCacheTTL, now)
                     ELSE redis
         /\ sreq' = [sreq EXCEPT ![r] =
                       [@ EXCEPT !.pc = "done", !.ret = "ok",
                                 !.okPushAssistant = pushOk,
                                 !.okSet = setOk,
                                 !.calls = @ \o HistoryCalls(sreq[r].session,
                                             <<"redis.rpush", "redis.expire">>)
                                             \o <<"redis.set">>]]
    /\ now' = now
    /\ UNCHANGED <<storeVars, mqVars, streamVars, searchVars>>

\* time passes
Tick ==
    /\ now < MaxTime
    /\ now' = now + TickStep
    /\ UNCHANGED <<redis, hist>>
    /\ UNCHANGED <<storeVars, mqVars, syncVars, streamVars, searchVars>>

(***************************************************************************)
(* RAGQueryService.AskStream: the worker goroutine and its two channels.   *)
(***************************************************************************)
\* make(chan string, 16)
OutCap == 16
\* make(chan error, 1)
ErrCap == 1

\* the errors sr.Recv may return
RecvErrors == {"EOF", "unexpected EOF", "timeout"}

\* e.Error() == "EOF" || strings.Contains(e.Error(), "EOF")
IsEndOfStream(e) == e \in {"EOF", "unexpected EOF"}

IdleStream ==
    [pc |-> "idle", user |-> "u1", session |-> "", query |-> <<>>, limit |-> 0,
     m |-> <<>>, final |-> <<>>, emitted |-> <<>>, sent |-> <<>>,
     reported |-> <<>>, ended |-> "", calls |-> <<>>, before |-> <<>>,
     recvErr |-> "", okPushUser |-> FALSE, okPushAssistant |-> FALSE]

\* lines 169-191: retrieval, prompt assembly and the start of the LLM stream
StreamPrepare ==
    /\ st.pc = "prepare"
    /\ \E f \in QueryFaults, histOk \in BOOLEAN, startOk \in BOOLEAN :
         LET sr == SearchSimilarChunks(st.query, st.limit, redis, now, index, db, f)
             asked == sr.calls \o HistoryCalls(st.session, <<"redis.lrange">>)
                        \o <<"llm.stream">>
         IN  /\ redis' = sr.redis
             /\ IF sr.err
                THEN /\ errs' = Append(errs, "retrieval failed")
                     /\ st' = [st EXCEPT !.pc = "closeErrs", !.calls = sr.calls,
                                         !.reported = <<"retrieval failed">>,
                                         !.ended = "error"]
                ELSE IF ~startOk
                THEN /\ errs' = Append(errs, "stream failed")
                     /\ st' = [st EXCEPT !.pc = "closeErrs", !.calls = asked,
                                         !.reported = <<"stream failed">>,
                                         !.ended = "error"]
                ELSE /\ errs' = errs
                     /\ st' = [st EXCEPT !.pc = "recv", !.calls = asked]
    /\ UNCHANGED <<hist, now, out, outClosed, errsClosed, h, cancelled>>
    /\ UNCHANGED <<storeVars, mqVars, syncVars, searchVars>>

\* line 194, sr.Recv returns a message
StreamRecvFragment ==
    /\ st.pc = "recv"
    /\ Len(st.emitted) < MaxFrags
    /\ \E frag \in Fragments :
         st' = [st EXCEPT !.pc = "send", !.m = frag,
                          !.emitted = Append(@, frag)]
    /\ UNCHANGED <<out, outClosed, errs, errsClosed, h, cancelled>>
    /\ UNCHANGED <<storeVars, mqVars, redisVars, syncVars, searchVars>>

\* lines 195-201, sr.Recv returns an error
StreamRecvError ==
    /\ st.pc = "recv"
    /\ \E e \in RecvErrors :
         IF IsEndOfStream(e)
         THEN /\ st' = [st EXCEPT !.pc = "saveUser", !.ended = "eof",
                                  !.recvErr = e]
              /\ errs' = errs
         ELSE /\ st' = [st EXCEPT !.pc = "closeErrs", !.reported = <<e>>,
                                  !.ended = "error", !.recvErr = e]
              /\ errs' = Append(errs, e)
    /\ UNCHANGED <<out, outClosed, errsClosed, h, cancelled>>
    /\ UNCHANGED <<storeVars, mqVars, redisVars, syncVars, searchVars>>

\* a send that puts the fragment ahead of the buffered ones
StreamSendFront ==
    /\ st.pc = "send"
    /\ Len(out) < OutCap
    /\ out' = <<st.m>> \o out
    /\ st' = [st EXCEPT !.pc = "recv", !.final = @ \o st.m,
                        !.sent = Append(@, st.m), !.m = <<>>]
    /\ UNCHANGED <<outClosed, errs, errsClosed, h, cancelled>>
    /\ UNCHANGED <<storeVars, mqVars, redisVars, syncVars, searchVars>>

\* lines 203-204: out <- m.Content blocks while the buffer is full
StreamSend ==
    /\ st.pc = "send"
    /\ Len(out) < OutCap
    /\ out' = Append(out, st.m)
    /\ st' = [st EXCEPT !.pc = "recv", !.final = @ \o st.m,
                        !.sent = Append(@, st.m), !.m = <<>>]
    /\ UNCHANGED <<outClosed, errs, errsClosed, h, cancelled>>
    /\ UNCHANGED <<storeVars, mqVars, redisVars, syncVars, searchVars>>

\* line 209
StreamSaveUser ==
    /\ st.pc = "saveUser"
    /\ \E pushOk \in BOOLEAN, expireOk \in BOOLEAN :
         /\ hist' = saveHistory(hist, st.user, st.session, "user", st.query,
                                now, pushOk, expireOk)
         /\ st' = [st EXCEPT !.pc = "saveAssistant", !.okPushUser = pushOk,
                             !.calls = @ \o HistoryCalls(st.session,
                                         <<"redis.rpush", "redis.expire">>)]
    /\ UNCHANGED <<redis, now, out, outClosed, errs, errsClosed, h, cancelled>>
    /\ UNCHANGED <<storeVars, mqVars, syncVars, searchVars>>

\* a worker that also writes the answer cache, as AskSync does
StreamSaveAssistantCaching ==
    /\ st.pc = "saveAssistant"
    /\ \E pushOk \in BOOLEAN, expireOk \in BOOLEAN :
         /\ hist' = saveHistory(hist, st.user, st.session, "assistant", st.final,
                                now, pushOk, expireOk)
         /\ st' = [st EXCEPT !.pc = "closeErrs", !.okPushAssistant = pushOk,
                             !.calls = @ \o HistoryCalls(st.session,
                                         <<"redis.rpush", "redis.expire">>)]
    /\ redis' = RedisSet(redis, cacheKey("rag", st.query, st.limit), st.final,
                         AnswerCacheTTL, now)
    /\ UNCHANGED <<now, out, outClosed, errs, errsClosed, h, cancelled>>
    /\ UNCHANGED <<storeVars, mqVars, syncVars, searchVars>>

\* line 210
StreamSaveAssistant ==
    /\ st.pc = "saveAssistant"
    /\ \E pushOk \in BOOLEAN, expireOk \in BOOLEAN :
         /\ hist' = saveHistory(hist, st.user, st.session, "assistant", st.final,
                                now, pushOk, expireOk)
         /\ st' = [st EXCEPT !.pc = "closeErrs", !.okPushAssistant = pushOk,
                             !.calls = @ \o HistoryCalls(st.session,
                                         <<"redis.rpush", "redis.expire">>)]
    /\ UNCHANGED <<redis, now, out, outClosed, errs, errsClosed, h, cancelled>>
    /\ UNCHANGED <<storeVars, mqVars, syncVars, searchVars>>

\* the deferred calls run last registered first: close(errs), then close(out)
StreamCloseErrs ==
    /\ st.pc = "closeErrs"
    /\ errsClosed' = TRUE
    /\ st' = [st EXCEPT !.pc = "closeOut"]
    /\ UNCHANGED <<out, outClosed, errs, h, cancelled>>
    /\ UNCHANGED <<storeVars, mqVars, redisVars, syncVars, searchVars>>

StreamCloseOut ==
    /\ st.pc = "closeOut"
    /\ outClosed' = TRUE
    /\ st' = [st EXCEPT !.pc = "done"]
    /\ UNCHANGED <<out, errs, errsClosed, h, cancelled>>
    /\ UNCHANGED <<storeVars, mqVars, redisVars, syncVars, searchVars>>

(***************************************************************************)
(* Handler.AskStream: the SSE endpoint and its select loop.                *)
(***************************************************************************)
\* RAGRequest defaults: limit <= 0 becomes 5
DefaultRagLimit == 5

StreamLimits == {0}

StreamUsers == {"u1"}

IdleHandler == [pc |-> "idle", status |-> 0, frames |-> <<>>, pings |-> 0]

Frame(type, data) == [type |-> type, data |-> data]

\* lines 118-138: binding (query is required), defaults, then AskStream
\* starts the worker and hands back the two channels
HandlerBegin ==
    /\ h.pc = "idle"
    /\ \E u \in StreamUsers, sess \in Sessions, q \in RagQueries,
          lim \in StreamLimits :
         IF q = <<>>
         THEN /\ h' = [h EXCEPT !.pc = "returned", !.status = 400]
              /\ st' = st
         ELSE /\ h' = [h EXCEPT !.pc = "loop", !.status = 200]
              /\ st' = [IdleStream EXCEPT
                          !.pc = "prepare", !.user = u, !.session = sess,
                          !.query = q,
                          !.limit = IF lim <= 0 THEN DefaultRagLimit ELSE lim,
                          !.before = ListItems(hist[<<u, sess>>], now)]
    /\ UNCHANGED <<out, outClosed, errs, errsClosed, cancelled>>
    /\ UNCHANGED <<storeVars, mqVars, redisVars, syncVars, searchVars>>

\* case chunk, ok := <-stream, ok: one data frame
HandlerData ==
    /\ h.pc = "loop"
    /\ out # <<>>
    /\ out' = Tail(out)
    /\ h' = [h EXCEPT !.frames = Append(@, Frame("data", Head(out)))]
    /\ UNCHANGED <<st, outClosed, errs, errsClosed, cancelled>>
    /\ UNCHANGED <<storeVars, mqVars, redisVars, syncVars, searchVars>>

\* case chunk, ok := <-stream, !ok: return
HandlerStreamClosed ==
    /\ h.pc = "loop"
    /\ out = <<>>
    /\ outClosed
    /\ h' = [h EXCEPT !.pc = "returned"]
    /\ UNCHANGED <<st, out, outClosed, errs, errsClosed, cancelled>>
    /\ UNCHANGED <<storeVars, mqVars, redisVars, syncVars, searchVars>>

\* case err, ok := <-errs, ok: one error frame, then return
HandlerError ==
    /\ h.pc = "loop"
    /\ errs # <<>>
    /\ errs' = Tail(errs)
    /\ h' = [h EXCEPT !.pc = "returned",
                      !.frames = Append(@, Frame("error", <<Head(errs)>>))]
    /\ UNCHANGED <<st, out, outClosed, errsClosed, cancelled>>
    /\ UNCHANGED <<storeVars, mqVars, redisVars, syncVars, searchVars>>

\* case err, ok := <-errs, !ok: return
HandlerErrsClosed ==
    /\ h.pc = "loop"
    /\ errs = <<>>
    /\ errsClosed
    /\ h' = [h EXCEPT !.pc = "returned"]
    /\ UNCHANGED <<st, out, outClosed, errs, errsClosed, cancelled>>
    /\ UNCHANGED <<storeVars, mqVars, redisVars, syncVars, searchVars>>

\* case <-heartbeat.C: one ping frame
HandlerPing ==
    /\ h.pc = "loop"
    /\ h.pings < MaxPings
    /\ h' = [h EXCEPT !.pings = @ + 1,
                      !.frames = Append(@, Frame("ping", <<"heartbeat">>))]
    /\ UNCHANGED <<st, out, outClosed, errs, errsClosed, cancelled>>
    /\ UNCHANGED <<storeVars, mqVars, redisVars, syncVars, searchVars>>

\* case <-ctx.Done(): return
HandlerDone ==
    /\ h.pc = "loop"
    /\ cancelled
    /\ h' = [h EXCEPT !.pc = "returned"]
    /\ UNCHANGED <<st, out, outClosed, errs, errsClosed, cancelled>>
    /\ UNCHANGED <<storeVars, mqVars, redisVars, syncVars, searchVars>>

\* the client disconnects or the server shuts down: the request context ends
Cancel ==
    /\ h.pc = "loop"
    /\ ~cancelled
    /\ cancelled' = TRUE
    /\ UNCHANGED <<st, out, outClosed, errs, errsClosed, h>>
    /\ UNCHANGED <<storeVars, mqVars, redisVars, syncVars, searchVars>>

(***************************************************************************)
(* Direct use of the vector service: Handler.ChunkDocument (ChunkText then *)
(* GenerateEmbeddings) and SearchSimilarChunks calls.                      *)
(***************************************************************************)
HttpContents == {<<"a", "a">>}

\* Handler.ChunkDocument, lines 49-56
HttpChunkDocument ==
    /\ pw["http"].pc = "idle"
    /\ nextId < MaxIds
    /\ \E content \in HttpContents :
         LET r == ChunkText("d1", content, 0, nextId)
         IN  /\ nextId' = nextId + Len(r.chunks)
             /\ pw' = [pw EXCEPT !["http"] =
                         [pc |-> IF r.err \/ r.chunks = <<>> THEN "done" ELSE "embed",
                          chunks |-> r.chunks, embeddings |-> <<>>, i |-> 0,
                          err |-> r.err]]
    /\ UNCHANGED <<db, index, writes>>
    /\ UNCHANGED <<mqVars, redisVars, syncVars, streamVars, searchVars>>

HttpEmbed ==
    GenEmbed("http") /\ UNCHANGED <<mqVars, redisVars, syncVars, streamVars, searchVars>>

HttpStore ==
    GenStore("http") /\ UNCHANGED <<mqVars, redisVars, syncVars, streamVars, searchVars>>

HttpInsert ==
    GenInsert("http") /\ UNCHANGED <<mqVars, redisVars, syncVars, streamVars, searchVars>>

\* Handler.ChunkDocument, lines 57-94: the response
HttpRespond ==
    /\ pw["http"].pc = "done"
    /\ pw' = [pw EXCEPT !["http"] = IdleWorker]
    /\ UNCHANGED <<db, index, nextId, writes>>
    /\ UNCHANGED <<mqVars, redisVars, syncVars, streamVars, searchVars>>

SearchQueries == {<<"a">>}

SearchLimits == {0, 1, 10}

\* backend behaviours of a search call: all succeed, the cache write fails,
\* the vector store fails
SearchCallOutcomes ==
    {AllOk, [AllOk EXCEPT !.set = FALSE], [AllOk EXCEPT !.retrieve = FALSE]}

\* one SearchSimilarChunks call; searchLog keeps the last call with its cache
\* key, the clock and the write count at the call
SearchCall ==
    \E q \in SearchQueries, lim \in SearchLimits, ok \in SearchCallOutcomes :
       LET sr == SearchSimilarChunks(q, lim, redis, now, index, db, ok)
           rec == [key |-> hash("srch", q,
                                IF lim <= 0 THEN DefaultSearchLimit ELSE lim),
                   t |-> now, writes |-> writes, err |-> sr.err,
                   result |-> sr.result, calls |-> sr.calls]
       IN  /\ redis' = sr.redis
           /\ searchLog' = <<rec>>
           /\ UNCHANGED <<hist, now, call>>
           /\ UNCHANGED <<storeVars, mqVars, syncVars, streamVars>>

(***************************************************************************)
(* Direct calls of ChunkText and GenerateEmbeddings, as the tests and the  *)
(* handlers make them: one ChunkText call, then GenerateEmbeddings runs on *)
(* the chunk objects it returned.                                          *)
(***************************************************************************)
\* texts are drawn over ChunkAlphabet up to MaxLen characters
MaxLen == 4
\* GenerateEmbeddings runs made on one chunk set
MaxRuns == 2

ChunkAlphabet == {"a", "b", " ", ";"}

\* the text of TestChunkText_Basic
BasicText == <<"a", "b", "c", "d", "e", "f", "g", "h", "i", "j">>

ChunkContents ==
    UNION {[1..n -> ChunkAlphabet] : n \in 0..MaxLen} \cup {BasicText}

ChunkSizes == {-1, 0, 1, 2, 3}

ChunkDocs == {"d1", "x"}

PendingCall(doc, content, size) ==
    [doc |-> doc, content |-> content, size |-> size, done |-> FALSE,
     err |-> FALSE, chunks |-> <<>>, runs |-> <<>>]

\* VectorService.ChunkText on the inputs of the call
ChunkTextCall ==
    /\ ~call.done
    /\ LET r == ChunkText(call.doc, call.content, call.size, nextId)
       IN  /\ call' = [call EXCEPT !.done = TRUE, !.err = r.err,
                                   !.chunks = r.chunks]
           /\ nextId' = nextId + Len(r.chunks)
    /\ UNCHANGED <<db, index, pw, writes, searchLog>>
    /\ UNCHANGED <<mqVars, redisVars, syncVars, streamVars>>

\* the entry of GenerateEmbeddings on the chunk objects ChunkText returned
\* (their ids are the ones ChunkText set); no chunks: return nil
GenerateEmbeddingsCall ==
    /\ call.done /\ ~call.err
    /\ Len(call.runs) < MaxRuns
    /\ pw["http"].pc = "idle"
    /\ pw' = [pw EXCEPT !["http"] =
                [pc |-> IF call.chunks = <<>> THEN "done" ELSE "embed",
                 chunks |-> call.chunks, embeddings |-> <<>>, i |-> 0,
                 err |-> FALSE]]
    /\ UNCHANGED <<db, index, nextId, writes>>
    /\ UNCHANGED <<mqVars, redisVars, syncVars, streamVars, searchVars>>

\* the return of GenerateEmbeddings: its error, with the stores as it left them
GenerateEmbeddingsReturn ==
    /\ call.done /\ ~call.err
    /\ pw["http"].pc = "done"
    /\ call' = [call EXCEPT !.runs = Append(@, [err |-> pw["http"].err,
                                                 db |-> db, index |-> index])]
    /\ pw' = [pw EXCEPT !["http"] = IdleWorker]
    /\ UNCHANGED <<db, index, nextId, writes, searchLog>>
    /\ UNCHANGED <<mqVars, redisVars, syncVars, streamVars>>

(***************************************************************************)
(* Direct calls of saveHistory and loadHistory.  searchLog keeps the last  *)
(* call with its result, and the turns every log was handed so far.        *)
(***************************************************************************)
\* turns appended to all logs together
MaxTurns == 2

HistRoles == {"user", "assistant", "tool"}

\* a content that holds the separator itself
HistContents == {<<"a", "|", "b">>}

NoHistCall ==
    [op |-> "none", user |-> "u1", session |-> "", role |-> "user",
     content |-> <<>>, ok |-> TRUE, expireOk |-> TRUE, t |-> 0, turns |-> <<>>,
     appended |-> [k \in HistKeys |-> <<>>]]

RECURSIVE SumLen(_, _)
SumLen(f, keys) ==
    IF keys = {} THEN 0
    ELSE LET k == CHOOSE x \in keys : TRUE
         IN  Len(f[k]) + SumLen(f, keys \ {k})

\* one saveHistory call
SaveHistoryCall ==
    /\ SumLen(searchLog[1].appended, HistKeys) < MaxTurns
    /\ \E u \in Users, sess \in Sessions, role \in HistRoles,
          content \in HistContents, pushOk \in BOOLEAN, expireOk \in BOOLEAN :
         /\ hist' = saveHistory(hist, u, sess, role, content, now, pushOk, expireOk)
         /\ searchLog' =
               <<[op |-> "save", user |-> u, session |-> sess, role |-> role,
                  content |-> content, ok |-> pushOk, expireOk |-> expireOk,
                  t |-> now, turns |-> <<>>,
                  appended |->
                     IF sess # "" /\ pushOk
                     THEN [searchLog[1].appended EXCEPT ![<<u, sess>>] =
                             Append(@, [role |-> role, content |-> content])]
                     ELSE searchLog[1].appended]>>
    /\ UNCHANGED <<redis, now, call>>
    /\ UNCHANGED <<storeVars, mqVars, syncVars, streamVars>>

\* one loadHistory call
LoadHistoryCall ==
    /\ \E u \in Users, sess \in Sessions, readOk \in BOOLEAN :
         searchLog' =
            <<[op |-> "load", user |-> u, session |-> sess, role |-> "user",
               content |-> <<>>, ok |-> readOk, expireOk |-> TRUE, t |-> now,
               turns |-> loadHistory(hist, u, sess, now, readOk),
               appended |-> searchLog[1].appended]>>
    /\ UNCHANGED <<redis, hist, now, call>>
    /\ UNCHANGED <<storeVars, mqVars, syncVars, streamVars>>

(***************************************************************************)
(* Direct calls of MilvusStore.Retrieve on a list of scored documents.     *)
(***************************************************************************)
\* documents in a list the backend retriever returns
MaxDocs == 3

DocScores == {0, 1, 2}

\* a list longer than the default limit, with one document below score 1
LongScores == <<2, 0, 2, 2, 1, 1, 1, 1, 1, 1, 1, 1>>

\* the document lists: the position in the list is the document's id
DocLists ==
    {[i \in DOMAIN sc |-> [id |-> i, score |-> sc[i]]] :
        sc \in UNION {[1..n -> DocScores] : n \in 0..MaxDocs} \cup {LongScores}}

RetrieveLimits == {-1, 0, 1, 2}

ScoreThresholds == {-1, 0, 1, 2}

\* MilvusStore.Retrieve, lines 265-299, on the documents of the pending call
RetrieveCall ==
    /\ searchLog # <<>>
    /\ searchLog[1].op = "retrieve"
    /\ ~searchLog[1].done
    /\ searchLog' =
          <<[searchLog[1] EXCEPT
                !.done = TRUE,
                !.hits = RetrieveDocs(searchLog[1].docs, searchLog[1].limit,
                                      searchLog[1].scoreThreshold)]>>
    /\ UNCHANGED <<redis, hist, now, call>>
    /\ UNCHANGED <<storeVars, mqVars, syncVars, streamVars>>

(***************************************************************************)
(* Direct calls of VectorService.Search, between deletions of documents.   *)
(***************************************************************************)
\* the documents ingested before the searches: id, text and chunk size
CrossDocs ==
    {<<[doc |-> "d1", content |-> <<"a", "b", ";", "a", "a">>, size |-> 2],
       [doc |-> "d2", content |-> <<"a", "a", ";", "b">>, size |-> 2]>>,
     <<[doc |-> "d2", content |-> <<"a", "a", ";", "b">>, size |-> 2],
       [doc |-> "d1", content |-> <<"a", "b", ";", "a", "a">>, size |-> 2]>>,
     <<[doc |-> "d1", content |-> <<"a", "b", "a", "b", "a", "b", "a", "b",
                                    "a", "b", "a">>, size |-> 1],
       [doc |-> "d2", content |-> <<"a", "a", ";", "b">>, size |-> 2]>>}

\* the chunks of two documents ingested one after the other
CrossChunks(docs) ==
    LET first == ChunkText(docs[1].doc, docs[1].content, docs[1].size, 1).chunks
    IN  first \o ChunkText(docs[2].doc, docs[2].content, docs[2].size,
                           Len(first) + 1).chunks

CrossQueries == {<<"a">>, <<"b">>}

CrossLimits == {0, 1, 2, 3}

CrossOutcomes ==
    {AllOk, [AllOk EXCEPT !.retrieve = FALSE], [AllOk EXCEPT !.find = FALSE]}

\* one Search call; searchLog keeps it with the write count at the call
CrossSearchCall ==
    /\ \E q \in CrossQueries, lim \in CrossLimits, ok \in CrossOutcomes :
         LET r == Search(q, lim, index, db, ok)
         IN  searchLog' = <<[op |-> "search", query |-> q, limit |-> lim,
                             writes |-> writes, err |-> r.err,
                             result |-> r.result]>>
    /\ UNCHANGED <<redis, hist, now, call>>
    /\ UNCHANGED <<storeVars, mqVars, syncVars, streamVars>>

\* one DeleteDocumentChunks call
DeleteDocumentChunksCall ==
    /\ \E doc \in ValidUUIDs, findOk \in BOOLEAN, storeOk \in BOOLEAN,
          deleteOk \in BOOLEAN :
         LET r == DeleteDocumentChunks(doc, index, db, findOk, storeOk, deleteOk)
         IN  /\ index' = r.index
             /\ db' = r.db
             /\ writes' = writes + (IF r.index # index THEN 1 ELSE 0)
                                  + (IF r.db # db THEN 1 ELSE 0)
    /\ UNCHANGED <<nextId, pw>>
    /\ UNCHANGED <<mqVars, redisVars, syncVars, streamVars, searchVars>>

\* DeleteDocumentChunks calls made while GenerateEmbeddings runs
MaxDeletes == 1

DeleteDocs == {"d1", "d2", "x"}

\* one DeleteDocumentChunks call, made between the steps of the running
\* GenerateEmbeddings; searchLog keeps the last call with the answers of its
\* backends, the calls it made and its error, the number of calls so far (n)
\* and whether every backend call of every call so far succeeded (clean)
DeleteCall ==
    /\ (IF searchLog = <<>> THEN 0 ELSE searchLog[1].n) < MaxDeletes
    /\ \E doc \in DeleteDocs, findOk \in BOOLEAN, storeOk \in BOOLEAN,
          deleteOk \in BOOLEAN :
         LET r == DeleteDocumentChunks(doc, index, db, findOk, storeOk, deleteOk)
             n == IF searchLog = <<>> THEN 0 ELSE searchLog[1].n
             clean == IF searchLog = <<>> THEN TRUE ELSE searchLog[1].clean
         IN  /\ index' = r.index
             /\ db' = r.db
             /\ writes' = writes + (IF r.index # index THEN 1 ELSE 0)
                                  + (IF r.db # db THEN 1 ELSE 0)
             /\ searchLog' = <<[op |-> "delete", doc |-> doc, findOk |-> findOk,
                                storeOk |-> storeOk, deleteOk |-> deleteOk,
                                err |-> r.err, calls |-> r.calls, n |-> n + 1,
                                clean |-> clean /\ findOk /\ storeOk
                                                /\ deleteOk]>>
    /\ UNCHANGED <<nextId, pw, call>>
    /\ UNCHANGED <<mqVars, redisVars, syncVars, streamVars>>

(***************************************************************************)
(* An LLM stream longer than the buffer of the fragment channel.           *)
(***************************************************************************)
\* fragments the LLM stream produces at most
MaxBurst == 17

\* line 194, sr.Recv returns one more message of a long stream
StreamRecvBurst ==
    /\ st.pc = "recv"
    /\ Len(st.emitted) < MaxBurst
    /\ st' = [st EXCEPT !.pc = "send", !.m = <<"x">>,
                        !.emitted = Append(@, <<"x">>)]
    /\ UNCHANGED <<out, outClosed, errs, errsClosed, h, cancelled>>
    /\ UNCHANGED <<storeVars, mqVars, redisVars, syncVars, searchVars>>

(***************************************************************************)
(* One query at a time against a redis that may fail: a direct             *)
(* SearchSimilarChunks call, an AskSync call or an AskStream call.         *)
(***************************************************************************)
\* every combination of backend answers of one search
AllFaults ==
    [get : BOOLEAN, retrieve : BOOLEAN, find : BOOLEAN, set : BOOLEAN]

FaultQueries == {<<"a">>}

FaultLimits == {0, 5}

\* a cached value json.Unmarshal rejects
Garbage == <<"{">>

\* one SearchSimilarChunks call; searchLog keeps its inputs, the answers of
\* its backends, what the cache read found, and its result
FaultSearchCall ==
    /\ searchLog = <<>>
    /\ sreq[1].pc = "idle" /\ h.pc = "idle"
    /\ \E q \in FaultQueries, lim \in FaultLimits, ok \in AllFaults :
         LET sr == SearchSimilarChunks(q, lim, redis, now, index, db, ok)
             got == RedisGet(redis, hash("srch", q,
                                 IF lim <= 0 THEN DefaultSearchLimit ELSE lim), now)
         IN  /\ redis' = sr.redis
             /\ searchLog' = <<[op |-> "similar", query |-> q, limit |-> lim,
                                ok |-> ok, found |-> got.found,
                                parsable |-> UnmarshalOk(got.val),
                                err |-> sr.err, result |-> sr.result,
                                calls |-> sr.calls]>>
    /\ UNCHANGED <<hist, now, call>>
    /\ UNCHANGED <<storeVars, mqVars, syncVars, streamVars>>

\* one AskSync call
FaultAskSync ==
    /\ searchLog = <<>> /\ h.pc = "idle"
    /\ AskSyncCall(1)

\* one AskStream call
FaultAskStream ==
    /\ searchLog = <<>> /\ sreq[1].pc = "idle"
    /\ HandlerBegin

(***************************************************************************)
(* Initial states.                                                         *)
(***************************************************************************)
InitStoreEmpty ==
    /\ db = {}
    /\ index = <<>>
    /\ nextId = 1
    /\ pw = [w \in Workers |-> IdleWorker]
    /\ writes = 0

InitMQ ==
    /\ queues = [q \in {QueueName, DlqName} |-> <<>>]
    /\ msgsChan = <<>>
    /\ cur = <<>>
    /\ decisions = <<>>
    /\ invoked = {}
    /\ taken = <<>>
    /\ published = 0

\* the stores after document d1 ("a;b", chunk size 1) was ingested
SeedChunks == ChunkText("d1", <<"a", ";", "b">>, 1, 1).chunks

InitStoreSeeded ==
    /\ db = {DbRow(SeedChunks[i], EmbedVec(SeedChunks[i].content)) :
                i \in DOMAIN SeedChunks}
    /\ index = [i \in DOMAIN SeedChunks |->
                   IndexRow(SeedChunks[i], EmbedVec(SeedChunks[i].content))]
    /\ nextId = Len(SeedChunks) + 1
    /\ pw = [w \in Workers |-> IdleWorker]
    /\ writes = 0

InitRedis ==
    /\ redis = [k \in RedisKeys |-> AbsentEntry]
    /\ hist = [k \in HistKeys |-> AbsentList]
    /\ now = 0

\* redis as an earlier AskSync left it: its answer to "a" cached, and its
\* two turns in the log of (u1, s1) if it ran in that session
InitRedisAnswered ==
    /\ redis = RedisSet([k \in RedisKeys |-> AbsentEntry],
                        cacheKey("rag", <<"a">>, DefaultRagLimit), <<"x">>,
                        AnswerCacheTTL, 0)
    /\ \E sess \in Sessions :
          hist = saveHistory(saveHistory([k \in HistKeys |-> AbsentList],
                                         "u1", sess, "user", <<"a">>, 0, TRUE, TRUE),
                             "u1", sess, "assistant", <<"x">>, 0, TRUE, TRUE)
    /\ now = 0

InitSync == sreq = [r \in SyncReqs |-> IdleSync]

InitStream ==
    /\ st = IdleStream
    /\ out = <<>>
    /\ outClosed = FALSE
    /\ errs = <<>>
    /\ errsClosed = FALSE
    /\ h = IdleHandler
    /\ cancelled = FALSE

\* no direct ChunkText call is pending
NoCall ==
    [doc |-> "", content |-> <<>>, size |-> 0, done |-> TRUE, err |-> FALSE,
     chunks |-> <<>>, runs |-> <<>>]

InitSearch == searchLog = <<>> /\ call = NoCall

(***************************************************************************)
(* Specifications.                                                         *)
(***************************************************************************)
\* the ingestion consumer and its broker
InitMQSpec ==
    InitStoreEmpty /\ InitMQ /\ InitRedis /\ InitSync /\ InitStream /\ InitSearch

NextMQ ==
    \/ Publish
    \/ Deliver
    \/ ConsumeUnparsable
    \/ ConsumeParsed
    \/ ProcessDocumentChunk
    \/ ProcessDocumentEmbed
    \/ ProcessDocumentStore
    \/ ProcessDocumentInsert
    \/ ConsumeDecide

SpecMQ == InitMQSpec /\ [][NextMQ]_vars

\* concurrent synchronous queries
InitSyncSpec ==
    InitStoreSeeded /\ InitMQ /\ InitRedis /\ InitSync /\ InitStream /\ InitSearch

NextSync ==
    \/ \E r \in SyncReqs : AskSyncCall(r)
    \/ \E r \in SyncReqs : AskSyncSaveUser(r)
    \/ \E r \in SyncReqs : AskSyncSaveAssistant(r)

SpecSync == InitSyncSpec /\ [][NextSync]_vars

\* one streaming query: the worker goroutine and the SSE handler
InitStreamSpec ==
    InitStoreSeeded /\ InitMQ /\ InitRedisAnswered /\ InitSync /\ InitStream
        /\ InitSearch

NextStream ==
    \/ HandlerBegin
    \/ StreamPrepare
    \/ StreamRecvFragment
    \/ StreamRecvError
    \/ StreamSend
    \/ StreamSaveUser
    \/ StreamSaveAssistant
    \/ StreamCloseErrs
    \/ StreamCloseOut
    \/ HandlerData
    \/ HandlerStreamClosed
    \/ HandlerError
    \/ HandlerErrsClosed
    \/ HandlerPing
    \/ HandlerDone
    \/ Cancel

SpecStream == InitStreamSpec /\ [][NextStream]_vars

\* direct searches interleaved with an ingestion and the clock
InitSearchSpec ==
    InitStoreSeeded /\ InitMQ /\ InitRedis /\ InitSync /\ InitStream /\ InitSearch

NextSearch ==
    \/ SearchCall
    \/ HttpChunkDocument
    \/ HttpEmbed
    \/ HttpStore
    \/ HttpInsert
    \/ HttpRespond
    \/ Tick

SpecSearch == InitSearchSpec /\ [][NextSearch]_vars

\* ChunkText applied to every text, chunk size and document id of the bounds
InitChunkSpec ==
    /\ InitStoreEmpty /\ InitMQ /\ InitRedis /\ InitSync /\ InitStream
    /\ searchLog = <<>>
    /\ \E doc \in ChunkDocs, content \in ChunkContents, size \in ChunkSizes :
          call = PendingCall(doc, content, size)

NextChunk == ChunkTextCall

SpecChunk == InitChunkSpec /\ [][NextChunk]_vars

\* one ChunkText call followed by GenerateEmbeddings runs on its chunks
RegenContents == {<<>>, <<"a">>, <<"a", ";", "b">>, <<"a", "b", "a">>}

RegenSizes == {0, 1}

InitRegenSpec ==
    /\ InitStoreEmpty /\ InitMQ /\ InitRedis /\ InitSync /\ InitStream
    /\ searchLog = <<>>
    /\ \E content \in RegenContents, size \in RegenSizes :
          call = PendingCall("d1", content, size)

NextRegen ==
    \/ ChunkTextCall
    \/ GenerateEmbeddingsCall
    \/ HttpEmbed
    \/ HttpStore
    \/ HttpInsert
    \/ GenerateEmbeddingsReturn

SpecRegen == InitRegenSpec /\ [][NextRegen]_vars

\* saveHistory and loadHistory calls on the logs of two users, with the clock
InitHistSpec ==
    /\ InitStoreEmpty /\ InitMQ /\ InitRedis /\ InitSync /\ InitStream
    /\ searchLog = <<NoHistCall>>
    /\ call = NoCall

NextHist ==
    \/ SaveHistoryCall
    \/ LoadHistoryCall
    \/ Tick

SpecHist == InitHistSpec /\ [][NextHist]_vars

\* Retrieve applied to every document list, limit and threshold of the bounds
InitRetrieveSpec ==
    /\ InitStoreEmpty /\ InitMQ /\ InitRedis /\ InitSync /\ InitStream
    /\ call = NoCall
    /\ \E docs \in DocLists, limit \in RetrieveLimits, th \in ScoreThresholds :
          searchLog = <<[op |-> "retrieve", docs |-> docs, limit |-> limit,
                         scoreThreshold |-> th, done |-> FALSE, hits |-> <<>>]>>

NextRetrieve == RetrieveCall

SpecRetrieve == InitRetrieveSpec /\ [][NextRetrieve]_vars

\* searches of a store that holds two ingested documents, with deletions
InitCrossSpec ==
    /\ InitMQ /\ InitRedis /\ InitSync /\ InitStream /\ InitSearch
    /\ \E docs \in CrossDocs :
          LET chunks == CrossChunks(docs)
          IN  /\ db = {DbRow(chunks[i], EmbedVec(chunks[i].content)) :
                          i \in DOMAIN chunks}
              /\ index = [i \in DOMAIN chunks |->
                             IndexRow(chunks[i], EmbedVec(chunks[i].content))]
              /\ nextId = Len(chunks) + 1
    /\ pw = [w \in Workers |-> IdleWorker]
    /\ writes = 0

NextCross ==
    \/ CrossSearchCall
    \/ DeleteDocumentChunksCall

SpecCross == InitCrossSpec /\ [][NextCross]_vars

\* GenerateEmbeddings runs on the chunks of one document, interleaved with
\* DeleteDocumentChunks calls
InitCleanupSpec == InitRegenSpec

NextCleanup ==
    \/ ChunkTextCall
    \/ GenerateEmbeddingsCall
    \/ HttpEmbed
    \/ HttpStore
    \/ HttpInsert
    \/ GenerateEmbeddingsReturn
    \/ DeleteCall

SpecCleanup == InitCleanupSpec /\ [][NextCleanup]_vars

\* one query against a redis that is empty, or holds under every search key
\* a value that cannot be parsed, or holds under every search key the list
\* of the first seeded chunk; the log of (u1, s1) is empty or holds two turns
InitFaultsSpec ==
    /\ InitStoreSeeded /\ InitMQ /\ InitSync /\ InitStream /\ InitSearch
    /\ now = 0
    /\ \E val \in {<<>>, Garbage,
                    Marshal(<<DbRow(SeedChunks[1], EmbedVec(SeedChunks[1].content))>>)} :
          redis = [k \in RedisKeys |->
                     IF val # <<>> /\ k[1] = "srch"
                     THEN [present |-> TRUE, val |-> val, exp |-> SearchCacheTTL]
                     ELSE AbsentEntry]
    /\ \E turns \in {<<>>, <<EncodeTurn("user", <<"a">>),
                               EncodeTurn("assistant", <<"x">>)>>} :
          hist = [k \in HistKeys |->
                    IF turns # <<>> /\ k = <<"u1", "s1">>
                    THEN [items |-> turns, hasTTL |-> TRUE, exp |-> HistoryTTL]
                    ELSE AbsentList]

NextFaults ==
    \/ FaultSearchCall
    \/ FaultAskSync
    \/ AskSyncSaveUser(1)
    \/ AskSyncSaveAssistant(1)
    \/ FaultAskStream
    \/ StreamPrepare
    \/ StreamRecvFragment
    \/ StreamRecvError
    \/ StreamSend
    \/ StreamSaveUser
    \/ StreamSaveAssistant
    \/ StreamCloseErrs
    \/ StreamCloseOut
    \/ HandlerData
    \/ HandlerStreamClosed
    \/ HandlerError
    \/ HandlerErrsClosed
    \/ HandlerDone
    \/ Cancel

SpecFaults == InitFaultsSpec /\ [][NextFaults]_vars

\* one streaming query whose LLM stream may be longer than the buffer
NextBurst ==
    \/ HandlerBegin
    \/ StreamPrepare
    \/ StreamRecvBurst
    \/ StreamRecvError
    \/ StreamSend
    \/ StreamSaveUser
    \/ StreamSaveAssistant
    \/ StreamCloseErrs
    \/ StreamCloseOut
    \/ HandlerData
    \/ HandlerStreamClosed
    \/ HandlerError
    \/ HandlerErrsClosed
    \/ HandlerDone
    \/ Cancel

SpecBurst == InitStreamSpec /\ [][NextBurst]_vars

\* direct searches and deletions of documents, with the clock
NextStale ==
    \/ SearchCall
    \/ DeleteDocumentChunksCall
    \/ Tick

SpecStale == InitSearchSpec /\ [][NextStale]_vars

(***************************************************************************)
(* Properties of the ingestion consumer (SpecMQ).                          *)
(***************************************************************************)
DecisionsOf(id) == {i \in DOMAIN decisions : decisions[i].msg.id = id}

InProgress(id) == cur # <<>> /\ cur[1].id = id

\* C1: a delivery taken from the queue gets no decision while ProcessDocument
\* runs for it and exactly one once the loop body is over; that decision is an
\* ack exactly when the body parsed and ProcessDocument ran and returned no
\* error, and otherwise a nack with requeue = false; no delivery is taken twice.
C1_OneDecisionPerDelivery ==
    /\ \A k \in DOMAIN taken :
          Cardinality(DecisionsOf(taken[k])) = IF InProgress(taken[k]) THEN 0 ELSE 1
    /\ \A i, j \in DOMAIN taken : taken[i] = taken[j] => i = j
    /\ \A i \in DOMAIN decisions :
          LET dec == decisions[i]
          IN  /\ dec.msg.id \in Range(taken)
              /\ dec.kind \in {"ack", "nack"}
              /\ dec.kind = "ack" <=>
                     (~Unmarshal(dec.msg.body).err /\ dec.ran /\ ~dec.failed)
              /\ ~dec.requeue

\* a parsed delivery was acknowledged, another one was rejected after its
\* pipeline failed, and an unparsable one was rejected
C1_Witness ==
    /\ cur = <<>>
    /\ \E i \in DOMAIN decisions : decisions[i].kind = "ack"
    /\ \E i \in DOMAIN decisions :
          decisions[i].kind = "nack" /\ decisions[i].ran /\ decisions[i].failed
    /\ \E i \in DOMAIN decisions :
          decisions[i].kind = "nack" /\ ~decisions[i].ran

Occurrences(q, id) == Cardinality({i \in DOMAIN q : q[i].id = id})

\* C2: a delivery whose body does not parse is rejected without requeue, the
\* dead-letter exchange <queue>.dlx routes it under the original queue's name
\* into <queue>.dlq and nowhere else, and ProcessDocument is not called for it.
C2_UnparsableDeadLettered ==
    \A k \in DOMAIN taken :
       \A i \in DecisionsOf(taken[k]) :
          LET dec == decisions[i]
          IN  Unmarshal(dec.msg.body).err =>
                 /\ dec.kind = "nack" /\ ~dec.requeue
                 /\ ~dec.ran /\ dec.msg.id \notin invoked
                 /\ QueueArgs[QueueName].dlx = "documents.dlx"
                 /\ QueueArgs[QueueName].dlrk = "documents"
                 /\ Route("documents.dlx", "documents") = {"documents.dlq"}
                 /\ Occurrences(queues["documents.dlq"], dec.msg.id) = 1
                 /\ Occurrences(queues[QueueName], dec.msg.id) = 0
                 /\ Occurrences(msgsChan, dec.msg.id) = 0

\* an unparsable delivery was taken and sits in the dead-letter queue, next
\* to a parsed one that was processed
C2_Witness ==
    /\ \E i \in DOMAIN decisions :
          /\ Unmarshal(decisions[i].msg.body).err
          /\ \E j \in DOMAIN queues[DlqName] :
                queues[DlqName][j] = decisions[i].msg
    /\ invoked # {}

(***************************************************************************)
(* Properties of a streaming query (SpecStream).                           *)
(***************************************************************************)
RECURSIVE Concat(_)
Concat(frags) == IF frags = <<>> THEN <<>> ELSE Head(frags) \o Concat(Tail(frags))

RECURSIVE FramesOf(_, _)
FramesOf(frames, type) ==
    IF frames = <<>> THEN <<>>
    ELSE (IF Head(frames).type = type THEN <<Head(frames).data>> ELSE <<>>)
           \o FramesOf(Tail(frames), type)

\* the worker received end-of-stream and has run to its end
StreamCompleted == st.pc = "done" /\ st.ended = "eof"

\* the two turns a completed worker writes
StreamTurns ==
    <<EncodeTurn("user", st.query), EncodeTurn("assistant", Concat(st.emitted))>>

\* what a completed worker leaves on its channels
StreamChannelsDone ==
    /\ FramesOf(h.frames, "data") \o out = st.emitted
    /\ outClosed
    /\ errsClosed /\ errs = <<>> /\ st.reported = <<>>
    /\ FramesOf(h.frames, "error") = <<>>

\* C3 (as amended): when retrieval succeeded and the LLM stream gave f1..fk
\* and then end-of-stream, the fragments taken from the output channel
\* followed by those still buffered in it are exactly f1..fk in order, both
\* channels are closed and the error channel never carried a value; with a
\* non-empty session id and both RPUSH calls succeeding, the log of
\* (user, session) is its earlier content followed by exactly the user query
\* and the concatenation f1..fk as the assistant turn.
C3_StreamCompletion ==
    StreamCompleted =>
       /\ StreamChannelsDone
       /\ (st.session # "" /\ st.okPushUser /\ st.okPushAssistant) =>
             ListItems(hist[<<st.user, st.session>>], now) = st.before \o StreamTurns

\* a completed stream of two different fragments in a session that already
\* had turns, both writes succeeding
C3_Witness ==
    /\ StreamCompleted
    /\ Len(st.emitted) = 2 /\ st.emitted[1] # st.emitted[2]
    /\ st.session # "" /\ st.before # <<>>
    /\ st.okPushUser /\ st.okPushAssistant
    /\ h.pc = "returned" /\ ~cancelled

\* C3 as stated: every completed stream with a session id has appended its
\* two turns
C3_AsStated ==
    StreamCompleted =>
       /\ StreamChannelsDone
       /\ st.session # "" =>
             ListItems(hist[<<st.user, st.session>>], now) = st.before \o StreamTurns

\* C4: when the client has not cancelled, the worker ended on end-of-stream
\* and the handler has returned, the data frames it wrote are all the
\* fragments the worker put on the output channel, in order.
C4_AllFragmentsWritten ==
    (h.pc = "returned" /\ ~cancelled /\ st.ended = "eof") =>
       FramesOf(h.frames, "data") = st.sent

\* C5: when the worker reported an error, the client has not cancelled and
\* the handler has returned, the handler wrote exactly one error frame, with
\* that error, as its last frame.
C5_OneErrorFrame ==
    (h.pc = "returned" /\ ~cancelled /\ st.ended = "error") =>
       /\ FramesOf(h.frames, "error") = <<st.reported>>
       /\ h.frames[Len(h.frames)].type = "error"

\* C6: once the request context is cancelled the handler writes no frame.
C6_NoWriteAfterCancel == [][cancelled => h'.frames = h.frames]_vars

AnswerCache(rds) == [k \in {x \in RedisKeys : x[1] = "rag"} |-> rds[k]]

\* C9: no step of a streaming query changes an entry of the answer cache,
\* whether it exists or not; the worker's two saveHistory steps append the
\* user query and then the accumulated answer when their RPUSH succeeds.
C9_AnswerCacheUntouched ==
    [][/\ AnswerCache(redis') = AnswerCache(redis)
       /\ (st.pc = "saveUser" /\ st'.pc = "saveAssistant"
              /\ st.session # "" /\ st'.okPushUser) =>
             ListItems(hist'[<<st.user, st.session>>], now)
                = Append(ListItems(hist[<<st.user, st.session>>], now),
                         EncodeTurn("user", st.query))
       /\ (st.pc = "saveAssistant" /\ st'.pc = "closeErrs"
              /\ st.session # "" /\ st'.okPushAssistant) =>
             ListItems(hist'[<<st.user, st.session>>], now)
                = Append(ListItems(hist[<<st.user, st.session>>], now),
                         EncodeTurn("assistant", Concat(st.emitted)))]_vars

\* a stream whose client went away while the worker still completed and
\* saved both turns; the answer cached before it is still in place
C9_Witness ==
    /\ st.pc = "done"
    /\ st.session # "" /\ st.okPushUser /\ st.okPushAssistant
    /\ st.emitted # <<>>
    /\ cancelled
    /\ redis[cacheKey("rag", <<"a">>, DefaultRagLimit)].val = <<"x">>

(***************************************************************************)
(* Properties of the synchronous query (SpecSync).                         *)
(***************************************************************************)
SyncLog(hs, r) == ListItems(hs[<<sreq[r].user, sreq[r].session>>], now)

\* C7: an AskSync call whose query is empty or only white space returns the
\* validation error having made no backend call (no cache read, no search,
\* no history read, no LLM call) and leaves the cache, the conversation
\* logs, the relational store and the vector index as they were.
C7_EmptyQueryNoEffect ==
    [][\A r \in SyncReqs :
          (sreq[r].pc = "idle" /\ sreq'[r].pc # "idle"
             /\ TrimSpace(sreq'[r].query) = <<>>) =>
             /\ sreq'[r].pc = "done"
             /\ sreq'[r].ret = "invalid"
             /\ sreq'[r].calls = <<>>
             /\ redis' = redis /\ hist' = hist
             /\ db' = db /\ index' = index]_vars

\* a white-space query was refused after another request had been answered
\* and had filled the cache and the log
C7_Witness ==
    \E r, r2 \in SyncReqs :
       /\ sreq[r].ret = "invalid" /\ sreq[r].query = <<" ">>
       /\ sreq[r2].ret = "ok" /\ sreq[r2].okSet /\ sreq[r2].okPushUser
       /\ sreq[r2].session # ""

\* C8 (as amended): an AskSync call that generated its answer appends the
\* user query at its first saveHistory and the answer at its second, each
\* when the session id is not empty and the RPUSH succeeds, and when its
\* cache SET succeeds the entry of (query, limit) holds the answer and
\* expires 60 seconds later; a call answered from the cache returns the
\* cached value and changes neither the log nor the cache.
C8_TurnsAndCacheOnMiss ==
    [][\A r \in SyncReqs :
          /\ (sreq[r].pc = "saveUser" /\ sreq'[r].pc = "saveAssistant"
                 /\ sreq[r].session # "" /\ sreq'[r].okPushUser) =>
                SyncLog(hist', r) = Append(SyncLog(hist, r),
                                           <<"user", "|">> \o sreq[r].query)
          /\ (sreq[r].pc = "saveAssistant" /\ sreq'[r].pc = "done") =>
                /\ sreq'[r].ret = "ok" /\ ~sreq'[r].cached
                /\ (sreq[r].session # "" /\ sreq'[r].okPushAssistant) =>
                      SyncLog(hist', r) = Append(SyncLog(hist, r),
                                                 <<"assistant", "|">> \o sreq[r].answer)
                /\ sreq'[r].okSet =>
                      redis'[<<"rag", Sha8(sreq[r].query), sreq[r].limit>>]
                         = [present |-> TRUE, val |-> sreq[r].answer, exp |-> now + 60]
          /\ (sreq[r].pc = "idle" /\ sreq'[r].pc = "done" /\ sreq'[r].ret = "ok") =>
                /\ sreq'[r].cached
                /\ sreq'[r].answer
                      = RedisGet(redis, cacheKey("rag", sreq'[r].query, sreq'[r].limit),
                                 now).val
                /\ redis' = redis /\ hist' = hist]_vars

\* one call generated its answer in a session and all its writes succeeded;
\* a later call in a session was answered from the cache
C8_Witness ==
    \E r, r2 \in SyncReqs :
       /\ sreq[r].ret = "ok" /\ ~sreq[r].cached /\ sreq[r].session # ""
       /\ sreq[r].okPushUser /\ sreq[r].okPushAssistant /\ sreq[r].okSet
       /\ sreq[r2].ret = "ok" /\ sreq[r2].cached /\ sreq[r2].session # ""

\* the user turn of request r somewhere before its assistant turn in the log
TurnsInOrder(hs, r) ==
    \E i, j \in DOMAIN SyncLog(hs, r) :
       /\ i < j
       /\ SyncLog(hs, r)[i] = <<"user", "|">> \o sreq'[r].query
       /\ SyncLog(hs, r)[j] = <<"assistant", "|">> \o sreq'[r].answer

\* C8 as stated: every successful return with a session id finds both turns
\* in the log, in order, and the answer in a live cache entry of at most 60 s.
C8_AsStated ==
    [][\A r \in SyncReqs :
          (sreq[r].pc # "done" /\ sreq'[r].pc = "done" /\ sreq'[r].ret = "ok"
             /\ sreq'[r].session # "") =>
             LET e == redis'[cacheKey("rag", sreq'[r].query, sreq'[r].limit)]
             IN  /\ TurnsInOrder(hist', r)
                 /\ e.present /\ e.val = sreq'[r].answer
                 /\ e.exp > now /\ e.exp <= now + 60]_vars

(***************************************************************************)
(* Properties of SearchSimilarChunks (SpecSearch).                         *)
(***************************************************************************)
\* C10: a successful call that follows a successful call with the same cache
\* key (same query, same effective limit) less than 60 seconds later, with
\* no write to the relational store or the vector index in between, returns
\* the same chunk list.
C10_IdenticalWithinTTL ==
    [][(searchLog # <<>> /\ searchLog' # <<>>) =>
          LET first == searchLog[1]
              second == searchLog'[1]
          IN  (/\ first.key = second.key
               /\ ~first.err /\ ~second.err
               /\ second.t - first.t < 60
               /\ first.writes = second.writes) =>
                 second.result = first.result]_vars

(***************************************************************************)
(* Properties of GenerateEmbeddings run again on the same chunk objects    *)
(* (SpecRegen).                                                            *)
(***************************************************************************)
RowsOf(id) == {r \in db : r.id = id}

EntriesOf(id) == {k \in DOMAIN index : index[k].id = id}

CallIds == {call.chunks[i].id : i \in DOMAIN call.chunks}

\* C11 (as the code has it): once one GenerateEmbeddings run on a non-empty
\* chunk set has succeeded, every later run on the same chunk objects returns
\* an error (the primary key rejects the first Create) and leaves both stores
\* as they were; no chunk id ever has a second relational row or a second
\* vector-index entry.
C11_SecondRunRejected ==
    /\ \A j \in DOMAIN call.runs :
          (call.chunks # <<>> /\ \E i \in 1..(j - 1) : ~call.runs[i].err)
             => /\ call.runs[j].err
                /\ call.runs[j].db = call.runs[j - 1].db
                /\ call.runs[j].index = call.runs[j - 1].index
    /\ \A id \in CallIds :
          Cardinality(RowsOf(id)) <= 1 /\ Cardinality(EntriesOf(id)) <= 1

C11_Witness ==
    /\ call.chunks # <<>>
    /\ Len(call.runs) >= 2
    /\ ~call.runs[1].err
    /\ call.runs[2].err
    /\ \A id \in CallIds :
          Cardinality(RowsOf(id)) = 1 /\ Cardinality(EntriesOf(id)) = 1

\* C11 as stated: the second run succeeds too and every chunk then has two
\* relational rows and two vector-index entries
C11_AsStated ==
    (call.chunks # <<>> /\ Len(call.runs) >= 2 /\ ~call.runs[1].err)
       => /\ ~call.runs[2].err
          /\ \A i \in DOMAIN call.chunks :
                /\ Cardinality({r \in db :
                                   r.content = call.chunks[i].content
                                   /\ r.chunk_index = call.chunks[i].chunk_index}) = 2
                /\ Cardinality({k \in DOMAIN index :
                                   index[k].content = call.chunks[i].content
                                   /\ index[k].metadata.chunk_index
                                        = call.chunks[i].chunk_index}) = 2

(***************************************************************************)
(* Properties of repeated ingestion of one message body (SpecMQ).          *)
(***************************************************************************)
\* the ingestion message that is published more than once
RepeatedBody ==
    [wellformed |-> TRUE, document_id |-> "d1",
     content |-> <<"a", ";", "b">>, chunk_size |-> 1]

\* what one run of ChunkText makes of it (ids aside)
RepeatedChunks == ChunkText("d1", <<"a", ";", "b">>, 1, 1).chunks

RunsOf(body) == {i \in DOMAIN decisions : decisions[i].msg.body = body}

AcksOf(body) == {i \in RunsOf(body) : decisions[i].kind = "ack"}

RowsLike(c) ==
    {r \in db : /\ r.document_id = c.document_id
                /\ r.content = c.content
                /\ r.chunk_index = c.chunk_index}

EntriesLike(c) ==
    {k \in DOMAIN index : /\ index[k].metadata.document_id = c.document_id
                          /\ index[k].content = c.content
                          /\ index[k].metadata.chunk_index = c.chunk_index}

\* C12: every processing run of the same message chunks afresh, so the ids
\* it is about to store are in neither store (no run is stopped or skipped
\* as a duplicate); after k runs that all succeeded the relational store and
\* the vector index each hold k copies of every chunk, with pairwise
\* distinct ids.
C12_KCopiesAfterKRuns ==
    /\ \A w \in Workers :
          pw[w].pc \in {"embed", "store"} =>
             \A i \in DOMAIN pw[w].chunks :
                (pw[w].pc = "embed" \/ i >= pw[w].i) =>
                   /\ RowsOf(pw[w].chunks[i].id) = {}
                   /\ EntriesOf(pw[w].chunks[i].id) = {}
    /\ (cur = <<>> /\ AcksOf(RepeatedBody) = RunsOf(RepeatedBody)) =>
          \A i \in DOMAIN RepeatedChunks :
             LET c == RepeatedChunks[i]
                 k == Cardinality(AcksOf(RepeatedBody))
             IN  /\ Cardinality(RowsLike(c)) = k
                 /\ Cardinality({r.id : r \in RowsLike(c)}) = k
                 /\ Cardinality(EntriesLike(c)) = k
                 /\ Cardinality({index[e].id : e \in EntriesLike(c)}) = k
                 /\ {r.id : r \in RowsLike(c)}
                      = {index[e].id : e \in EntriesLike(c)}

C12_Witness ==
    /\ cur = <<>>
    /\ Cardinality(AcksOf(RepeatedBody)) >= 2
    /\ AcksOf(RepeatedBody) = RunsOf(RepeatedBody)
    /\ \A i \in DOMAIN RepeatedChunks :
          Cardinality(RowsLike(RepeatedChunks[i])) >= 2
          /\ Cardinality(EntriesLike(RepeatedChunks[i])) >= 2

(***************************************************************************)
(* Properties of ChunkText as a function of its inputs (SpecChunk).        *)
(***************************************************************************)
\* the call has returned a chunk list for a valid document id
Chunked == call.done /\ uuidParseOk(call.doc)

\* the maximum chunk size in effect
CallSize == IF call.size <= 0 THEN DefaultChunkSize ELSE call.size

Strip(text, chars) == SelectSeq(text, LAMBDA c : c \notin chars)

RECURSIVE ConcatContents(_)
ConcatContents(chunks) ==
    IF chunks = <<>> THEN <<>>
    ELSE Head(chunks).content \o ConcatContents(Tail(chunks))

\* C13: for a valid document id, any text and M > 0 the chunk_index values
\* of the returned chunks are 0..n-1 in list order.
C13_ContiguousIndex ==
    (Chunked /\ call.size > 0) =>
       /\ ~call.err
       /\ \A i \in DOMAIN call.chunks : call.chunks[i].chunk_index = i - 1

\* C14: for a non-empty text and M > 0 no chunk content is longer than M,
\* separator spaces included.
C14_ContentWithinM ==
    (Chunked /\ call.size > 0 /\ call.content # <<>>) =>
       \A i \in DOMAIN call.chunks : Len(call.chunks[i].content) <= call.size

\* C15: the chunk contents concatenated in list order, white space deleted,
\* are the non-white-space characters of the text in their order (the
\* sentence terminators, which the split consumes, set aside on both sides).
C15_CharactersPreserved ==
    Chunked =>
       Strip(ConcatContents(call.chunks), WhiteSpace \cup Terminators)
          = Strip(call.content, WhiteSpace \cup Terminators)

CeilDiv(a, b) == (a + b - 1) \div b

\* the text has neither white space nor a sentence terminator
Unbroken(text) == \A i \in DOMAIN text : text[i] \notin WhiteSpace \cup Terminators

\* C16: an unbroken text of L characters chunked with 0 < M < L gives
\* ceil(L/M) chunks with chunk_index 0..ceil(L/M)-1; every chunk but the last
\* has word_count M, the last has L - (ceil(L/M)-1)*M, and word_count is the
\* length of the content in characters.
C16_HardSplitCounts ==
    LET L == Len(call.content)
        M == call.size
        n == CeilDiv(L, M)
    IN  (Chunked /\ Unbroken(call.content) /\ 0 < M /\ M < L) =>
           /\ ~call.err
           /\ Len(call.chunks) = n
           /\ \A i \in 1..n :
                 /\ call.chunks[i].chunk_index = i - 1
                 /\ call.chunks[i].word_count
                      = IF i < n THEN M ELSE L - (n - 1) * M
                 /\ call.chunks[i].word_count = Len(call.chunks[i].content)
                 /\ call.chunks[i].content
                      = SubSeq(call.content, (i - 1) * M + 1,
                               IF i < n THEN i * M ELSE L)

C16_Witness ==
    /\ Chunked
    /\ call.content = BasicText
    /\ call.size = 3
    /\ [i \in DOMAIN call.chunks |-> call.chunks[i].word_count] = <<3, 3, 3, 1>>
    /\ [i \in DOMAIN call.chunks |-> call.chunks[i].chunk_index] = <<0, 1, 2, 3>>

\* C17: for a valid document id and an empty or white-space-only text,
\* ChunkText returns no chunk and no error, whatever the chunk size.
C17_BlankTextNoChunks ==
    (Chunked /\ TrimSpace(call.content) = <<>>) =>
       ~call.err /\ call.chunks = <<>>

C17_Witness ==
    /\ Chunked
    /\ call.content = <<" ", " ">>
    /\ call.size = -1
    /\ ~call.err
    /\ call.chunks = <<>>

(***************************************************************************)
(* Properties of the conversation log (SpecHist).                          *)
(***************************************************************************)
\* the turns handed to the log of key k whose RPUSH succeeded, as they read back
TurnsSaved(k) ==
    [i \in DOMAIN searchLog[1].appended[k] |->
        [role |-> RoleString(searchLog[1].appended[k][i].role),
         content |-> searchLog[1].appended[k][i].content]]

\* C18 (as the code has it): the log of every (user, session) holds exactly
\* the turns whose RPUSH succeeded for that key, in the order of the calls,
\* each with its content and with the role string saved for it ("user" for a
\* role other than system and assistant); a read that succeeds returns them
\* in that order, a read for the empty session returns nothing; no call
\* changes another key's log; and a save whose RPUSH and EXPIRE both succeed
\* leaves the log with a time to live of 24 hours from that call.
C18_AppendOnlyLog ==
    LET c == searchLog[1]
        key == <<c.user, c.session>>
    IN  /\ \A k \in HistKeys :
              DecodeAll(ListItems(hist[k], now)) = TurnsSaved(k)
        /\ \A k \in HistKeys : k[2] = "" => hist[k] = AbsentList
        /\ (c.op = "load" /\ c.ok) =>
              c.turns = IF c.session = "" THEN <<>> ELSE TurnsSaved(key)
        /\ (c.op = "save" /\ c.session # "" /\ c.ok /\ c.expireOk) =>
              /\ hist[key].hasTTL
              /\ hist[key].exp = c.t + HistoryTTL
              /\ hist[key].items[Len(hist[key].items)]
                   = EncodeTurn(c.role, c.content)

C18_Witness ==
    LET c == searchLog[1]
    IN  /\ c.op = "load" /\ c.ok
        /\ c.user = "u1" /\ c.session = "s1"
        /\ Len(c.turns) = 2
        /\ c.turns[1] = [role |-> "user", content |-> <<"a", "|", "b">>]
        /\ c.turns[2] = [role |-> "assistant", content |-> <<"a", "|", "b">>]
        /\ hist[<<"u2", "s1">>] = AbsentList
        /\ hist[<<"u1", "s1">>].exp = TickStep + HistoryTTL

\* C18 as stated: every append resets the time to live of the log to 24 hours
C18_AsStated ==
    LET c == searchLog[1]
        key == <<c.user, c.session>>
    IN  (c.op = "save" /\ c.session # "" /\ c.ok) =>
           /\ hist[key].hasTTL
           /\ hist[key].exp = c.t + HistoryTTL

(***************************************************************************)
(* Properties of MilvusStore.Retrieve (SpecRetrieve).                      *)
(***************************************************************************)
\* the positions of the documents a threshold leaves eligible
Eligible(docs, th) == {i \in DOMAIN docs : th <= 0 \/ docs[i].score >= th}

\* C19: Retrieve returns at most limit hits (10 when limit <= 0), in the
\* order of the backend's list: exactly the first eligible documents of the
\* list, a document being eligible when the threshold is not positive or its
\* score is not below it; each hit carries its document's id and score.
C19_FirstEligibleHits ==
    LET c == searchLog[1]
        lim == IF c.limit <= 0 THEN 10 ELSE c.limit
        el == Eligible(c.docs, c.scoreThreshold)
        \* the eligible positions with fewer than lim eligible ones before them
        kept == {i \in el : Cardinality({j \in el : j < i}) < lim}
    IN  c.done =>
           /\ Len(c.hits) <= lim
           /\ Len(c.hits) = Cardinality(kept)
           /\ \A i \in kept :
                 LET k == Cardinality({j \in kept : j <= i})
                 IN  c.hits[k] = [id |-> c.docs[i].id, score |-> c.docs[i].score]
           /\ c.scoreThreshold > 0 =>
                 \A k \in DOMAIN c.hits : c.hits[k].score >= c.scoreThreshold

C19_Witness ==
    LET c == searchLog[1]
    IN  /\ c.done
        /\ Len(c.docs) = 12
        /\ c.limit = 0
        /\ c.scoreThreshold = 1
        /\ Len(c.hits) = 10
        /\ c.hits[2].id = 3
        /\ c.hits[10].id = 11

(***************************************************************************)
(* Properties of VectorService.Search (SpecCross).                         *)
(***************************************************************************)
\* entry i of the collection comes before entry j in the backend's answer:
\* a higher score, or the same score and an earlier place
HitBefore(query, i, j) ==
    \/ Score(query, index[i].content) > Score(query, index[j].content)
    \/ /\ Score(query, index[i].content) = Score(query, index[j].content)
       /\ i < j

\* the entries among the first lim of the backend's answer
TopHits(query, lim) ==
    {i \in DOMAIN index :
        Cardinality({j \in DOMAIN index : HitBefore(query, j, i)}) < lim}

\* C20: a Search call that succeeds returns, for the hits of the vector store
\* (the first limit entries of the backend's answer, 10 when limit <= 0) that
\* have a relational row, that row with the score of its own hit, in the
\* order of the hits; hits without a row are left out and nothing else is
\* returned, so the result has at most limit items.
C20_HitOrderAndScores ==
    [][searchLog' # searchLog =>
          LET c == searchLog'[1]
              lim == IF c.limit <= 0 THEN 10 ELSE c.limit
              kept == {i \in TopHits(c.query, lim) : RowsOf(index[i].id) # {}}
          IN  ~c.err =>
                 /\ Len(c.result) <= lim
                 /\ Len(c.result) = Cardinality(kept)
                 /\ \A i \in kept :
                       LET k == Cardinality({j \in kept :
                                               j = i \/ HitBefore(c.query, j, i)})
                       IN  /\ c.result[k].chunk \in RowsOf(index[i].id)
                           /\ c.result[k].distance
                                = Score(c.query, index[i].content)]_vars

\* a search has left out a hit without a row that ranks before the second of
\* the two chunks it returned, and these two are not in the order of their ids
C20_Witness ==
    /\ searchLog # <<>>
    /\ searchLog[1].op = "search"
    /\ ~searchLog[1].err
    /\ searchLog[1].writes = writes
    /\ Len(searchLog[1].result) = 2
    /\ searchLog[1].result[1].chunk.id > searchLog[1].result[2].chunk.id
    /\ \E k \in DOMAIN index :
          /\ RowsOf(index[k].id) = {}
          /\ Score(searchLog[1].query, index[k].content)
               > searchLog[1].result[2].distance

(***************************************************************************)
(* Properties of query validation on the streaming path (SpecStream).      *)
(***************************************************************************)
\* C21: AskStream given an empty or white-space-only query makes no backend
\* call (no retrieval, no LLM call, no conversation-memory access) and
\* reports one validation error as its only outcome.
C21_BlankQueryRejected ==
    (st.pc # "idle" /\ TrimSpace(st.query) = <<>>) =>
       /\ st.calls = <<>>
       /\ st.emitted = <<>>
       /\ st.pc = "done" => st.reported = <<"query is empty">>

(***************************************************************************)
(* Properties of the LLM invocation of one query (SpecStream).             *)
(***************************************************************************)
Count(s, x) == Cardinality({i \in DOMAIN s : s[i] = x})

\* C22: within one streaming query the LLM is invoked at most once and only
\* after the retrieval has returned; a failed retrieval ends the query with
\* that error and without an LLM call; and an LLM failure, at the start of
\* the stream or from a later Recv, is surfaced as exactly one error.
C22_OneLLMCallAfterRetrieval ==
    /\ Count(st.calls, "llm.stream") <= 1
    /\ \A i \in DOMAIN st.calls :
          st.calls[i] = "llm.stream" =>
             \E j \in 1..(i - 1) : st.calls[j] \in {"redis.get", "store.retrieve"}
    /\ st.reported = <<"retrieval failed">> => Count(st.calls, "llm.stream") = 0
    /\ Len(st.reported) <= 1
    /\ (st.recvErr # "" /\ st.recvErr # "EOF") =>
          st.reported = <<st.recvErr>> /\ st.ended = "error"


(***************************************************************************)
(* Properties of the order of writes in GenerateEmbeddings (SpecRegen).    *)
(***************************************************************************)
\* the ids of the entries of a vector index
IndexIds(idx) == {idx[k].id : k \in DOMAIN idx}

\* the worker whose GenerateEmbeddings call is at its InsertChunks
Inserting(w) == pw[w].pc = "insert"

\* C23: the vector index changes only in the single InsertChunks step of a
\* GenerateEmbeddings call, which is taken only when the Embed call and every
\* db.Create of the call succeeded and a relational row exists for every chunk
\* of the call; so in every state, also one a crash leaves behind, every id
\* in the vector index has a relational row.
C23_InsertAfterAllRows ==
    [][/\ index' # index =>
            \E w \in Workers :
               /\ Inserting(w)
               /\ ~pw[w].err
               /\ pw[w].i = Len(pw[w].chunks)
               /\ Len(pw[w].embeddings) = Len(pw[w].chunks)
               /\ \A i \in DOMAIN pw[w].chunks : RowsOf(pw[w].chunks[i].id) # {}
               /\ pw'[w].pc = "done"
               /\ IndexIds(index') \ IndexIds(index) =
                     {pw[w].chunks[i].id : i \in DOMAIN pw[w].chunks}
       /\ \A w \in Workers :
             (pw[w].pc \in {"embed", "store"} /\ pw'[w].pc = "done") =>
                pw'[w].err /\ index' = index
       /\ \A id \in IndexIds(index') : \E r \in db' : r.id = id]_vars

\* a call of two chunks has made its InsertChunks
C23_Witness ==
    /\ pw["http"].pc = "done"
    /\ ~pw["http"].err
    /\ Len(pw["http"].chunks) = 2
    /\ IndexIds(index) = {pw["http"].chunks[i].id : i \in {1, 2}}
    /\ Len(call.runs) = 0


(***************************************************************************)
(* Properties of DeleteDocumentChunks (SpecCleanup).                       *)
(***************************************************************************)
\* the ids of the rows of a document in a table
DocIds(table, doc) == {r.id : r \in {x \in table : x.document_id = doc}}

\* C24: a DeleteDocumentChunks call with a well-formed document id whose id
\* query succeeded attempts the relational delete whether or not the
\* vector-store delete failed, and has attempted the vector-store delete of
\* the ids found whether or not the relational delete fails; each delete that
\* succeeds takes effect; a failed vector-store delete is not reported; the
\* call returns an error exactly when the id query or the relational delete
\* failed.
C24_DeletesIndependent ==
    [][searchLog' # searchLog =>
          LET c == searchLog'[1]
              ids == DocIds(db, c.doc)
          IN  uuidParseOk(c.doc) =>
                 /\ c.err <=> (~c.findOk \/ ~c.deleteOk)
                 /\ c.findOk =>
                       /\ Count(c.calls, "db.delete") = 1
                       /\ ids # {} => Count(c.calls, "store.delete") = 1
                       /\ c.deleteOk => DocIds(db', c.doc) = {}
                       /\ c.storeOk => IndexIds(index') \cap ids = {}
                 /\ ~c.findOk => db' = db /\ index' = index]_vars

\* a call whose vector-store delete failed has deleted the rows of d1, whose
\* entries are still in the index, and returned no error
C24_Witness ==
    /\ searchLog # <<>>
    /\ searchLog[1].doc = "d1"
    /\ searchLog[1].findOk /\ ~searchLog[1].storeOk /\ searchLog[1].deleteOk
    /\ ~searchLog[1].err
    /\ Count(searchLog[1].calls, "store.delete") = 1
    /\ db = {}
    /\ Len(index) = 2


\* C26: once every GenerateEmbeddings and DeleteDocumentChunks call made on
\* the document has returned, and no backend call of any of them failed,
\* every entry of the vector index has a relational row with its id.
C26_NoOrphanEntries ==
    (/\ call.doc = "d1"
     /\ pw["http"].pc = "idle"
     /\ \A k \in DOMAIN call.runs : ~call.runs[k].err
     /\ searchLog # <<>> => searchLog[1].clean /\ searchLog[1].doc = "d1")
       => \A id \in IndexIds(index) : RowsOf(id) # {}


(***************************************************************************)
(* Properties of cache and conversation-memory failures (SpecFaults).      *)
(***************************************************************************)
Last(s) == s[Len(s)]

\* redis holding nothing
NoRedis == [k \in RedisKeys |-> AbsentEntry]

\* the outcome of SearchSimilarChunks without a cache: nothing to read,
\* nothing written
SearchWithoutCache(query, limit, ok) ==
    SearchSimilarChunks(query, limit, NoRedis, now, index, db,
                        [ok EXCEPT !.get = FALSE, !.set = FALSE])

\* the calls an error of a query may come from
FatalCalls == {"store.retrieve", "db.find", "llm.generate", "llm.stream"}

\* C25: a cache or conversation-memory operation that fails does not change
\* the outcome of a query.  A SearchSimilarChunks call that does not return a
\* cached list (the read failed, found nothing, or found a value that cannot
\* be parsed; the write may fail) returns the error or the chunk list it
\* returns without a cache.  An AskSync or AskStream call returns an error
\* only from the vector store, the relational store or the LLM; an AskSync
\* call that searched builds its sources and its prompt from the chunk list
\* found without a cache, with the stored history or none; and the steps
\* that write the conversation log and the answer cache leave the answer,
\* the sources and the success of the call as they were.
C25_CacheFailuresHarmless ==
    [][/\ searchLog' # searchLog =>
            LET c == searchLog'[1]
                w == SearchWithoutCache(c.query, c.limit, c.ok)
            IN  ~(c.ok.get /\ c.found /\ c.parsable) =>
                   c.err = w.err /\ c.result = w.result
       /\ (sreq[1].pc = "idle" /\ sreq'[1].pc # "idle") =>
            LET r == sreq'[1]
                w == SearchWithoutCache(r.query, r.limit, AllOk)
            IN  /\ r.ret = "error" => Last(r.calls) \in FatalCalls
                /\ (r.pc = "saveUser" /\ "store.retrieve" \in Range(r.calls)) =>
                      /\ r.sources = SourcesOf(w.result)
                      /\ r.msgs \in
                           {BuildMessages(past, r.query, w.result) :
                              past \in {<<>>, loadHistory(hist, r.user, r.session,
                                                          now, TRUE)}}
       /\ (sreq[1].pc \in {"saveUser", "saveAssistant"} /\ sreq' # sreq) =>
            /\ sreq'[1].answer = sreq[1].answer
            /\ sreq'[1].sources = sreq[1].sources
            /\ sreq'[1].ret \in {"", "ok"}
            /\ sreq'[1].pc = "done" => sreq'[1].ret = "ok"
       /\ (st.pc = "prepare" /\ st'.reported # <<>>) =>
            Last(st'.calls) \in FatalCalls
       /\ (st.pc \in {"saveUser", "saveAssistant"} /\ st' # st) =>
            /\ st'.reported = st.reported
            /\ st'.final = st.final
            /\ st'.ended = st.ended
            /\ errs' = errs /\ out' = out]_vars

\* a search whose cache read found a value that cannot be parsed and whose
\* cache write failed has returned the two seeded chunks
C25_Witness ==
    /\ searchLog # <<>>
    /\ searchLog[1].op = "similar"
    /\ searchLog[1].ok.get /\ searchLog[1].found /\ ~searchLog[1].parsable
    /\ ~searchLog[1].ok.set
    /\ ~searchLog[1].err
    /\ Len(searchLog[1].result) = 2


(***************************************************************************)
(* Properties of the streaming worker after a cancellation (SpecBurst).    *)
(***************************************************************************)
\* the worker is at its send, the buffer of the fragment channel is full and
\* the handler has returned: nothing will ever be read from the channel
BlockedForGood ==
    /\ st.pc = "send"
    /\ Len(out) = OutCap
    /\ h.pc = "returned"

\* C27: once the request is cancelled and the handler has returned (it reads
\* the fragment channel no more), the worker still reaches its end with both
\* channels closed, however long the LLM stream is: it is never left at a
\* send that cannot complete.
C27_WorkerNeverBlocked == cancelled => ~BlockedForGood


(***************************************************************************)
(* Properties of concurrent synchronous queries (SpecSync).                *)
(***************************************************************************)
\* the two turns AskSync call r writes, as saveHistory encodes them
TurnPair(r) ==
    <<EncodeTurn("user", sreq[r].query), EncodeTurn("assistant", sreq[r].answer)>>

\* call r has returned an answer it generated and appended both of its turns
WroteTurns(r) ==
    /\ sreq[r].pc = "done" /\ sreq[r].ret = "ok" /\ ~sreq[r].cached
    /\ sreq[r].session # ""
    /\ sreq[r].okPushUser /\ sreq[r].okPushAssistant

\* C28: when two AskSync calls for the same user and session have both
\* written their turns, the log holds the two turns of one call followed by
\* the two turns of the other: no turn of one call lies between the turns of
\* the other.
C28_TurnsAdjacent ==
    (/\ WroteTurns(1) /\ WroteTurns(2)
     /\ sreq[1].user = sreq[2].user /\ sreq[1].session = sreq[2].session)
       => SyncLog(hist, 1) \in {TurnPair(1) \o TurnPair(2),
                                TurnPair(2) \o TurnPair(1)}


\* call r has returned the answer it obtained from the LLM
Generated(r) ==
    sreq[r].pc = "done" /\ sreq[r].ret = "ok" /\ ~sreq[r].cached

\* call r has returned an answer read from the answer cache
ServedFromCache(r) ==
    sreq[r].pc = "done" /\ sreq[r].ret = "ok" /\ sreq[r].cached

\* C29: an answer generated for one user and session is not returned to
\* another user or another session: a call that returns a cached answer (the
\* cache starts empty, so the answer the other call generated for the same
\* query and limit) has the user and the session of the call that generated
\* it.
C29_AnswerStaysWithCaller ==
    \A r1, r2 \in SyncReqs :
       (/\ Generated(r1) /\ ServedFromCache(r2)
        /\ cacheKey("rag", sreq[r1].query, sreq[r1].limit)
             = cacheKey("rag", sreq[r2].query, sreq[r2].limit)
        /\ sreq[r2].answer = sreq[r1].answer)
          => /\ sreq[r2].user = sreq[r1].user
             /\ sreq[r2].session = sreq[r1].session


(***************************************************************************)
(* Properties of searches after a deletion (SpecStale).                    *)
(***************************************************************************)
\* the documents whose chunks a successful DeleteDocumentChunks call has
\* deleted: the table changes only when such a call succeeds, and nothing is
\* ingested here, so these are the seeded documents without a row
DeletedDocs ==
    {SeedChunks[i].document_id : i \in DOMAIN SeedChunks}
       \ {r.document_id : r \in db}

\* C30: a SearchSimilarChunks call made after DeleteDocumentChunks(d) returned
\* successfully returns no chunk of document d, whether or not the same query
\* and limit were searched in the 60 seconds before the deletion.
C30_NoDeletedChunks ==
    [][searchLog' # searchLog =>
          \A i \in DOMAIN searchLog'[1].result :
             searchLog'[1].result[i].document_id \notin DeletedDocs]_vars

====
